---------------------------- MODULE Spec2Model ----------------------------
(***************************************************************************)
(* A model of the Hexplastics customisations: the TimeWatch attendance     *)
(* sync (one run, and two runs at once), the whitelisted entry points, the *)
(* on_submit hooks that create Stock Entries, DailyRejectionData.validate, *)
(* the backward searches of the Production Log Book API and the daily      *)
(* stock alert with its manual tests.                                      *)
(*                                                                         *)
(* Framework semantics the code relies on and the model states:            *)
(*  - an exception leaving a handler (frappe.throw, a failing save) makes  *)
(*    the framework abort the request and roll back its uncommitted        *)
(*    writes; the handler's caller sees the exception;                     *)
(*  - an exception the code catches itself leaves the writes made so far.  *)
(***************************************************************************)
EXTENDS Integers, Sequences, FiniteSets, Bags, TLC

None == "None"

\* ------------------------------------------------------------------------
\* Bounds
\* ------------------------------------------------------------------------
\* Rows in one TimeWatch response, and the distinct punch times of the day.
MaxPunches == 2

\* Rows in each child table of a Production Log Sheet.
MaxSheetRows == 1
\* Stock Entries the database holds before the model stops creating more.
MaxStockEntries == 4
\* Rows in the production_details table of a Recycle Machine Daily Production.
MaxRecycleRows == 2
\* Rows in the material_consumption table of a Production Log Book.
MaxBookRows == 1
\* Rows in the table_zsze child table of a Daily Rejection Data document.
MaxRejectionRows == 2
\* Production Log Books the closing-stock lookup searches.
MaxLogBooks == 2
\* Purchase Order Items the average-rate lookup finds.
MaxOrderItems == 6

VARIABLES
    employees,      \* Employee master: name -> [status, custom_employee_id]
    attendance,     \* Attendance table: a bag of documents
    sync_run,       \* what the last sync_yesterday_attendance call did
    sync_procs,     \* two concurrent runs of the sync: where each is, what it holds
    stock_entries,  \* Stock Entry table: a set of documents with unique names
    sheet,          \* the Production Log Sheet being submitted
    sheet_run,      \* what the last ProductionLogSheet.on_submit did
    recycle,        \* the Recycle Machine Daily Production being submitted
    recycle_run,    \* what the last RecycleMachineDailyProduction.on_submit did
    book,           \* the Production Log Book being submitted
    has_link_column,\* Stock Entry has the custom_production_log_book column
    book_run,       \* what the last ProductionLogBook.on_submit did
    rejection,      \* the Daily Rejection Data document being saved
    rejection_run,  \* whether DailyRejectionData.validate has run on it
    log_books,      \* Production Log Book table as the API reads it, oldest first
    stock_query,    \* the arguments of the get_previous_closing_stock call
    stock_run,      \* what the last get_previous_closing_stock call did
    entry_run,      \* what the last call of a whitelisted API function did
    item_master,    \* Item master: item code -> [disabled, safety_stock]
    bins,           \* Bin table: item code -> warehouse -> actual_qty or no Bin
    alert_run       \* what the last stock alert check, or manual test of it, did

sync_vars == <<employees, attendance, sync_run, sync_procs>>
sheet_vars == <<sheet, sheet_run>>
recycle_vars == <<recycle, recycle_run>>
book_vars == <<book, has_link_column, book_run>>
rejection_vars == <<rejection, rejection_run>>
stock_vars == <<log_books, stock_query, stock_run>>
alert_vars == <<item_master, bins, alert_run>>
vars == <<sync_vars, stock_entries, sheet_vars, recycle_vars, book_vars,
          rejection_vars, stock_vars, entry_run, alert_vars>>

\* ------------------------------------------------------------------------
\* TimeWatch attendance sync (utils/timewatch_api.py)
\* ------------------------------------------------------------------------
Emp == {"E1", "E2"}
UserIds == {"U1", "U2"}
PunchClock == 1..MaxPunches

\* _get_yesterday_str(): the date being synced; a punch may carry another.
att_date == "yesterday"
other_date == "today"

\* employees as frappe.get_all returns them (row order of the table).
EmpOrder == <<"E1", "E2">>

EmployeeTables ==
    { t \in [Emp -> [status : {"Active", "Left"},
                     custom_employee_id : {None} \cup UserIds]] :
        /\ t["E1"].status = "Active"
        /\ t["E1"].custom_employee_id # "U2" }

\* A PunchTime string: missing, not ISO ("bad"), or a timestamp.
NoPunchTime == [fmt |-> "missing"]
BadPunchTime == [fmt |-> "bad"]
Stamp(d, t) == [fmt |-> "iso", date |-> d, time |-> t]

ValidRows ==
    { [UserID |-> u, PunchTime |-> Stamp(att_date, t)] :
        u \in UserIds, t \in PunchClock }

\* Rows the filter drops whatever their user: no UserID, no PunchTime, a
\* PunchTime that does not parse, a punch of another date.
SkippedRows ==
    { [UserID |-> None, PunchTime |-> Stamp(att_date, 1)],
      [UserID |-> "U1", PunchTime |-> NoPunchTime],
      [UserID |-> "U1", PunchTime |-> BadPunchTime],
      [UserID |-> "U1", PunchTime |-> Stamp(other_date, 1)] }

PunchRows == ValidRows \cup SkippedRows

RECURSIVE SeqsUpTo(_, _)
SeqsUpTo(S, n) ==
    IF n = 0 THEN { <<>> }
    ELSE LET shorter == SeqsUpTo(S, n - 1)
         IN shorter \cup { Append(s, x) : s \in { q \in shorter : Len(q) = n - 1 }, x \in S }

PunchLists == SeqsUpTo(PunchRows, MaxPunches)

\* What requests.post and resp.json() can give.  A missing or null "Data"
\* and an empty one are the same to the code (data.get("Data") or []).
NotJson == [json |-> "invalid"]
JsonList == [json |-> "list"]
ApiDict(success, data) == [json |-> "dict", Success |-> success, Data |-> data]
Response(err, code, body) == [error |-> err, status_code |-> code, body |-> body]

SomeData == << [UserID |-> "U1", PunchTime |-> Stamp(att_date, 1)] >>

FailedResponses ==
    { Response("ConnectionError", None, NotJson),
      Response("Timeout", None, NotJson),
      Response(None, "200", NotJson),
      Response(None, "500", NotJson),
      Response(None, "500", ApiDict(TRUE, SomeData)),
      Response(None, "400", ApiDict(FALSE, <<>>)),
      Response(None, "200", JsonList),
      Response(None, "200", ApiDict(FALSE, <<>>)),
      Response(None, "200", ApiDict(FALSE, SomeData)),
      Response(None, "200", ApiDict(TRUE, <<>>)) }

OkResponses ==
    { Response(None, "200", ApiDict(TRUE, d)) : d \in PunchLists \ { <<>> } }

Responses == FailedResponses \cup OkResponses

\* A fetch that trusts any JSON body, whatever the HTTP status.
fetch_ignoring_status(resp) ==
    [punches |-> IF resp.error # None \/ resp.body.json # "dict" THEN <<>>
                 ELSE resp.body.Data,
     posts |-> <<"POST">>]

\* _fetch_punches_for_date: one requests.post, every failure gives [].
_fetch_punches_for_date(resp) ==
    LET punches ==
            IF resp.error # None THEN <<>>
            ELSE IF resp.body.json = "invalid" THEN <<>>
            ELSE IF resp.status_code # "200" THEN <<>>
            ELSE IF resp.body.json # "dict" THEN <<>>
            ELSE IF ~resp.body.Success THEN <<>>
            ELSE resp.body.Data
    IN [punches |-> punches, posts |-> <<"POST">>]

\* frappe.get_all("Employee", filters={"status": "Active"}).
active_employees(tbl) == SelectSeq(EmpOrder, LAMBDA e : tbl[e].status = "Active")

\* userid_to_emp: custom_employee_id -> employee name; a later employee with
\* the same id overwrites an earlier one; .get(userid) of a missing id is None.
RECURSIVE userid_to_emp(_, _, _)
userid_to_emp(tbl, emps, map) ==
    IF emps = <<>> THEN map
    ELSE LET emp == Head(emps)
             cid == tbl[emp].custom_employee_id
         IN userid_to_emp(tbl, Tail(emps),
                          IF cid # None THEN [map EXCEPT ![cid] = emp] ELSE map)

no_employee_map == [u \in UserIds |-> None]

\* user_punch_times (a defaultdict(list)): the keys in insertion order and
\* the datetimes kept for each; rows are dropped as lines 475-491 drop them.
no_punch_times == [keys |-> <<>>, times |-> [u \in UserIds |-> <<>>]]

RECURSIVE user_punch_times(_, _)
user_punch_times(punches, acc) ==
    IF punches = <<>> THEN acc
    ELSE LET row == Head(punches)
             userid == row.UserID
             pt == row.PunchTime
             rest == Tail(punches)
         IN IF userid = None \/ pt.fmt = "missing" THEN user_punch_times(rest, acc)
            ELSE IF pt.fmt = "bad" THEN user_punch_times(rest, acc)
            ELSE IF pt.date # att_date THEN user_punch_times(rest, acc)
            ELSE user_punch_times(rest,
                    [keys |-> IF acc.times[userid] = <<>>
                              THEN Append(acc.keys, userid) ELSE acc.keys,
                     times |-> [acc.times EXCEPT ![userid] = Append(@, pt)]])

\* times.sort(): datetimes of one date, ordered by their time.
RECURSIVE insert_sorted(_, _)
insert_sorted(sorted, x) ==
    IF sorted = <<>> THEN <<x>>
    ELSE IF x.time < Head(sorted).time THEN <<x>> \o sorted
    ELSE <<Head(sorted)>> \o insert_sorted(Tail(sorted), x)

\* A sort that is skipped: the punches stay in the order received.
sort_times_skipped(times) == times

RECURSIVE sort_times(_)
sort_times(times) ==
    IF times = <<>> THEN <<>>
    ELSE insert_sorted(sort_times(Tail(times)), Head(times))

\* strftime("%Y-%m-%d %H:%M:%S") of a datetime, None for None.
strftime(dt) == IF dt = <<>> THEN <<>> ELSE <<dt[1].date, dt[1].time>>

\* frappe.new_doc("Attendance") with employee and attendance_date set.
new_attendance(emp_name, date) ==
    [employee |-> emp_name, attendance_date |-> date, status |-> "",
     custom_attendance_in_time |-> <<>>, custom_attendance_out_time |-> <<>>,
     docstatus |-> 0]

\* An existence check that never finds the Attendance.
attendance_never_found(att, emp_name, date) == {}

\* frappe.db.exists("Attendance", {"employee": .., "attendance_date": ..}).
attendance_of(att, emp_name, date) ==
    { d \in BagToSet(att) : d.employee = emp_name /\ d.attendance_date = date }

\* What the framework may refuse during one run: the save, or the submit, of
\* one employee's Attendance.
NoFault == [op |-> "none", employee |-> None]
Faults == {NoFault} \cup [op : {"save", "submit"}, employee : Emp]

\* doc.save() and then doc.submit() when the saved document is a Draft
\* (lines 577-600, 622-633).  A failing save raises out of the sync; a
\* failing submit is caught and leaves the saved Draft.
save_and_submit(acc, existing, doc, fault) ==
    IF fault = [op |-> "save", employee |-> doc.employee]
    THEN [acc EXCEPT !.raised = TRUE]
    ELSE LET others == IF existing = <<>> THEN acc.att
                       ELSE acc.att (-) SetToBag({existing[1]})
             submitted == IF doc.docstatus = 0
                             /\ fault # [op |-> "submit", employee |-> doc.employee]
                          THEN [doc EXCEPT !.docstatus = 1]
                          ELSE doc
         IN [acc EXCEPT !.att = others (+) SetToBag({submitted})]

\* Lines 530-600 for one user with a matching employee: sorted is
\* times.sort(), found the Attendance frappe.db.exists looks among.
write_attendance(acc, emp_name, sorted, found, fault) ==
    LET in_time == <<sorted[1]>>
        out_time == IF Len(sorted) > 1 THEN <<sorted[Len(sorted)]>> ELSE <<>>
        status == IF out_time # <<>> THEN "Present" ELSE "Absent"
        existing == IF found = {} THEN <<>> ELSE <<CHOOSE d \in found : TRUE>>
        doc == IF existing # <<>> THEN existing[1]
               ELSE new_attendance(emp_name, att_date)
    IN IF in_time[1].date # att_date THEN acc
       ELSE save_and_submit(acc, existing,
                [doc EXCEPT !.status = status,
                            !.attendance_date = att_date,
                            !.custom_attendance_in_time = strftime(in_time),
                            !.custom_attendance_out_time = strftime(out_time)],
                fault)

\* One iteration of "for userid, times in user_punch_times.items()".
process_user(acc, userid, times, map, fault) ==
    IF acc.raised THEN acc
    ELSE IF map[userid] = None THEN acc
    ELSE IF times = <<>> THEN acc
    ELSE write_attendance(acc, map[userid], sort_times(times),
                          attendance_of(acc.att, map[userid], att_date), fault)

RECURSIVE process_users(_, _, _, _, _)
process_users(acc, keys, times, map, fault) ==
    IF keys = <<>> THEN acc
    ELSE process_users(process_user(acc, Head(keys), times[Head(keys)], map, fault),
                       Tail(keys), times, map, fault)

\* One iteration of "for emp in employees" (no punches at all -> Absent).
process_absent(acc, emp, tbl, keys, fault) ==
    IF acc.raised THEN acc
    ELSE LET userid == tbl[emp].custom_employee_id
         IN IF userid = None THEN acc
            ELSE IF \E i \in 1..Len(keys) : keys[i] = userid THEN acc
            ELSE IF attendance_of(acc.att, emp, att_date) # {} THEN acc
            ELSE save_and_submit(acc, <<>>,
                    [new_attendance(emp, att_date) EXCEPT !.status = "Absent"], fault)

RECURSIVE process_absentees(_, _, _, _, _)
process_absentees(acc, emps, tbl, keys, fault) ==
    IF emps = <<>> THEN acc
    ELSE process_absentees(process_absent(acc, Head(emps), tbl, keys, fault),
                           Tail(emps), tbl, keys, fault)

\* The value a call returns, or the exception that leaves it.  The counters
\* of the summary (present, absent, created, ...) are not modelled.
Returned(success, message) == [raised |-> FALSE, success |-> success, message |-> message]
Raised(message) == [raised |-> TRUE, success |-> FALSE, message |-> message]

\* The body of sync_yesterday_attendance, [att, ret, posts], in the order
\* of the code: the early returns, the two loops, the commit.
sync_stop(att, fetched, message) ==
    [att |-> att, ret |-> Returned(FALSE, message), posts |-> fetched.posts]

\* frappe.db.commit() and the summary; a save that raised leaves the
\* request without a commit, its writes rolled back.
sync_commit(att, fetched, done) ==
    IF done.raised
    THEN [att |-> att, ret |-> Raised("Attendance.save"), posts |-> fetched.posts]
    ELSE [att |-> done.att, ret |-> Returned(TRUE, "summary"), posts |-> fetched.posts]

sync_loops(tbl, att, fetched, emps, map, upt, fault) ==
    IF \A u \in UserIds : map[u] = None
    THEN sync_stop(att, fetched, "No employees with custom_employee_id")
    ELSE IF upt.keys = <<>>
    THEN sync_stop(att, fetched, "No valid punches after filtering")
    ELSE sync_commit(att, fetched,
            process_absentees(
                process_users([att |-> att, raised |-> FALSE],
                              upt.keys, upt.times, map, fault),
                emps, tbl, upt.keys, fault))

sync_employees(tbl, att, fetched, emps, fault) ==
    sync_loops(tbl, att, fetched, emps,
               userid_to_emp(tbl, emps, no_employee_map),
               user_punch_times(fetched.punches, no_punch_times), fault)

sync_punches(tbl, att, fetched, fault) ==
    IF fetched.punches = <<>> THEN sync_stop(att, fetched, "No punches")
    ELSE sync_employees(tbl, att, fetched, active_employees(tbl), fault)

sync_body(tbl, att, resp, fault) ==
    sync_punches(tbl, att, _fetch_punches_for_date(resp), fault)

\* ---- what a run is remembered by (read by the properties only) ----------
\* The response is a failure, or carries no punch.
api_failed(resp) ==
    \/ resp.error # None
    \/ resp.status_code # "200"
    \/ resp.body.json # "dict"
    \/ ~resp.body.Success
    \/ resp.body.Data = <<>>

\* The punch times of user cid on the attendance date in a delivered response.
punches_on_date(resp, cid) ==
    IF api_failed(resp) THEN {}
    ELSE { i \in 1..Len(resp.body.Data) :
             LET row == resp.body.Data[i]
             IN /\ row.UserID = cid
                /\ row.PunchTime.fmt = "iso"
                /\ row.PunchTime.date = att_date }

Least(S) == CHOOSE x \in S : \A y \in S : x <= y
Greatest(S) == CHOOSE x \in S : \A y \in S : x >= y

not_seen == [eligible |-> FALSE, mapped |-> FALSE, punches |-> "0",
             first |-> 0, last |-> 0, existed |-> FALSE]

seen_employee(tbl, att, resp, emp) ==
    LET cid == tbl[emp].custom_employee_id
        idx == punches_on_date(resp, cid)
        at == { resp.body.Data[i].PunchTime.time : i \in idx }
    IN IF tbl[emp].status # "Active" \/ cid = None THEN not_seen
       ELSE [eligible |-> TRUE,
             mapped |-> \A o \in Emp :
                          (tbl[o].status = "Active" /\ tbl[o].custom_employee_id = cid)
                              => \E i, j \in 1..Len(EmpOrder) :
                                    EmpOrder[i] = o /\ EmpOrder[j] = emp /\ i <= j,
             punches |-> IF idx = {} THEN "0"
                         ELSE IF Cardinality(idx) = 1 THEN "1" ELSE "2+",
             first |-> IF idx = {} THEN 0 ELSE Least(at),
             last |-> IF idx = {} THEN 0 ELSE Greatest(at),
             existed |-> idx = {} /\ \E d \in BagToSet(att) :
                                        d.employee = emp /\ d.attendance_date = att_date]

never_run == [called |-> FALSE, ret |-> Returned(FALSE, ""), posts |-> 0,
              api_failed |-> FALSE, changed |-> FALSE,
              seen |-> [e \in Emp |-> not_seen]]

\* ---- the action ---------------------------------------------------------
\* The effect of a run on the database, and what is remembered of it.
sync_effect(run, resp) ==
    /\ attendance' = run.att
    /\ sync_run' = [called |-> TRUE, ret |-> run.ret, posts |-> Len(run.posts),
                    api_failed |-> api_failed(resp),
                    changed |-> run.att # attendance,
                    seen |-> [e \in Emp |->
                                IF run.ret.raised THEN not_seen
                                ELSE seen_employee(employees, attendance, resp, e)]]
    /\ UNCHANGED <<employees, sync_procs>>

sync_yesterday_attendance ==
    \E resp \in Responses, fault \in Faults :
        sync_effect(sync_body(employees, attendance, resp, fault), resp)

\* ---- two runs at once --------------------------------------------------
\* The scheduled run and a manual call of the whitelisted endpoint, each a
\* request with its own database transaction: a run reads the committed
\* table and its own writes, and its writes reach the table with the
\* frappe.db.commit() at the end of the run (line 638).
Runs == {"scheduled", "manual"}

not_started == [pc |-> "start", base |-> EmptyBag, att |-> EmptyBag,
                ret |-> Returned(FALSE, "")]

\* Lines 432-636 of one run, on the table as committed when the run reads
\* it: the writes stay in the run's transaction.  A run that returns early
\* or raises has nothing to commit.
sync_work(r) ==
    /\ sync_procs[r].pc = "start"
    /\ \E resp \in Responses, fault \in Faults :
          LET run == sync_body(employees, attendance, resp, fault)
          IN sync_procs' = [sync_procs EXCEPT ![r] =
                 [pc |-> IF run.ret.success THEN "commit" ELSE "done",
                  base |-> attendance,
                  att |-> IF run.ret.success THEN run.att ELSE attendance,
                  ret |-> run.ret]]
    /\ UNCHANGED <<employees, attendance, sync_run>>

\* Line 638: the documents the run inserted are added, the ones it changed
\* replace what it read.
sync_finish(r) ==
    /\ sync_procs[r].pc = "commit"
    /\ attendance' = (attendance (-) (sync_procs[r].base (-) sync_procs[r].att))
                        (+) (sync_procs[r].att (-) sync_procs[r].base)
    /\ sync_procs' = [sync_procs EXCEPT ![r].pc = "done"]
    /\ UNCHANGED <<employees, sync_run>>

SyncStart ==
    /\ employees \in EmployeeTables
    /\ attendance = EmptyBag
    /\ sync_run = never_run
    /\ sync_procs = [r \in Runs |-> not_started]

SyncIdle ==
    /\ employees = [e \in Emp |-> [status |-> "Active", custom_employee_id |-> None]]
    /\ attendance = EmptyBag
    /\ sync_run = never_run
    /\ sync_procs = [r \in Runs |-> not_started]

\* ---- properties of the sync --------------------------------------------
\* The Attendance documents of an employee for the synced date, with copies.
attendance_docs(emp) ==
    { d \in BagToSet(attendance) : d.employee = emp /\ d.attendance_date = att_date }

attendance_count(emp) ==
    LET docs == attendance_docs(emp)
    IN IF docs = {} THEN 0
       ELSE IF Cardinality(docs) = 1
            THEN CopiesIn(CHOOSE d \in docs : TRUE, attendance)
       ELSE 2

the_attendance(emp) == CHOOSE d \in attendance_docs(emp) : TRUE

\* C2: after any sequence of sequential runs for one date, every employee
\* has at most one Attendance document for that date.
C2_AtMostOneAttendance == \A e \in Emp : attendance_count(e) <= 1

\* C2 witness: a completed run met an employee without punches whose
\* Attendance an earlier run had written, and skipped it.
C2_Witness ==
    /\ sync_run.ret.success
    /\ \E e \in Emp : sync_run.seen[e].existed /\ attendance_count(e) = 1
    /\ \E e \in Emp : sync_run.seen[e].punches # "0" /\ attendance_count(e) = 1

\* C3: a call issues exactly one POST; when the call fails or brings no
\* punches the sync returns success=False and no Attendance is created or
\* modified.
C3_OnePostAndNoWriteOnFailure ==
    sync_run.called =>
        /\ sync_run.posts = 1
        /\ sync_run.api_failed =>
              /\ ~sync_run.ret.raised
              /\ ~sync_run.ret.success
              /\ ~sync_run.changed

\* C3 witness: a failed call on a database that already holds Attendance.
C3_Witness ==
    /\ sync_run.called
    /\ sync_run.api_failed
    /\ attendance # EmptyBag

\* The three rules of C10 for employee e, given what the last run saw.
attendance_rules(e) ==
    LET saw == sync_run.seen[e]
    IN saw.eligible =>
        /\ (saw.mapped /\ saw.punches = "2+") =>
              /\ attendance_count(e) = 1
              /\ the_attendance(e).status = "Present"
              /\ the_attendance(e).custom_attendance_in_time = <<att_date, saw.first>>
              /\ the_attendance(e).custom_attendance_out_time = <<att_date, saw.last>>
        /\ (saw.mapped /\ saw.punches = "1") =>
              /\ attendance_count(e) = 1
              /\ the_attendance(e).status = "Absent"
              /\ the_attendance(e).custom_attendance_in_time = <<att_date, saw.first>>
              /\ the_attendance(e).custom_attendance_out_time = <<>>
        /\ saw.punches = "0" =>
              /\ attendance_count(e) = 1
              /\ ~saw.existed =>
                    /\ the_attendance(e).status = "Absent"
                    /\ the_attendance(e).custom_attendance_in_time = <<>>
                    /\ the_attendance(e).custom_attendance_out_time = <<>>

\* C10 as stated: after every call that returns, at least 2 punches give
\* Present with the earliest and latest punch, exactly 1 punch gives Absent
\* without out_time, and an active employee with a custom_employee_id and no
\* punches has an Absent Attendance unless one existed.
C10_RulesAfterEveryCall ==
    (sync_run.called /\ ~sync_run.ret.raised) => \A e \in Emp : attendance_rules(e)

\* C10, for a completed run: the same rules after every call that completes (returns
\* success=True).
C10_RulesAfterCompletedRun ==
    sync_run.ret.success => \A e \in Emp : attendance_rules(e)

\* C10 witness: one completed run with an employee of each kind.
C10_Witness ==
    /\ sync_run.ret.success
    /\ \E e \in Emp : sync_run.seen[e].mapped /\ sync_run.seen[e].punches = "2+"
                       /\ sync_run.seen[e].first < sync_run.seen[e].last
    /\ \E e \in Emp : sync_run.seen[e].punches = "0" /\ ~sync_run.seen[e].existed

\* A second C10 case: exactly one punch.
C10_WitnessOnePunch ==
    /\ sync_run.ret.success
    /\ \E e \in Emp : sync_run.seen[e].mapped /\ sync_run.seen[e].punches = "1"

\* C17: when two runs of the sync for the same date interleave and both
\* have ended, no employee has two Attendance documents for that date.
C17_NoDuplicateWhenInterleaved ==
    (\A r \in Runs : sync_procs[r].pc = "done") =>
        \A e \in Emp : Cardinality(attendance_docs(e)) <= 1
                        /\ \A d \in attendance_docs(e) : CopiesIn(d, attendance) = 1

\* C17 failing case: both runs read the table before either committed, both
\* returned success, and an employee has two Attendance documents.
C17_Witness ==
    /\ \A r \in Runs : /\ sync_procs[r].pc = "done"
                        /\ sync_procs[r].ret.success
                        /\ sync_procs[r].base = EmptyBag
    /\ \E e \in Emp : attendance_count(e) = 2

\* The last run saved an Attendance of employee e: the employee had punches
\* and is the one the user id maps to, or had none and no Attendance existed.
written_by_run(e) ==
    LET saw == sync_run.seen[e]
    IN /\ saw.eligible
       /\ \/ saw.mapped /\ saw.punches # "0"
          \/ saw.punches = "0" /\ ~saw.existed

\* C11: when the sync returns, every Attendance it created or updated is
\* submitted (docstatus 1), none is left in Draft.
C11_NoDraftAfterSync ==
    (sync_run.called /\ ~sync_run.ret.raised) =>
        \A e \in Emp : written_by_run(e) =>
            \A d \in attendance_docs(e) : d.docstatus = 1

\* C11 failing case: a run that returned success=True after the submit of
\* the Attendance it saved was refused; the Draft is committed.
C11_Witness ==
    /\ sync_run.ret.success
    /\ \E e \in Emp : /\ written_by_run(e)
                       /\ sync_run.seen[e].punches = "2+"
                       /\ attendance_count(e) = 1
                       /\ the_attendance(e).docstatus = 0
                       /\ the_attendance(e).status = "Present"

\* ------------------------------------------------------------------------
\* Stock Entries and the framework's request
\* ------------------------------------------------------------------------
\* frappe.new_doc("Stock Entry") once inserted: a Draft with the next name.
next_name(ses) == IF ses = {} THEN 1 ELSE 1 + Greatest({ se.name : se \in ses })

new_stock_entry(ses, type, source, items) ==
    [name |-> next_name(ses), stock_entry_type |-> type, docstatus |-> 0,
     production_log_sheet |-> None, custom_production_log_book |-> None,
     source |-> source, items |-> items]

set_docstatus(ses, name, ds) ==
    { IF se.name = name THEN [se EXCEPT !.docstatus = ds] ELSE se : se \in ses }

\* A user cancels a submitted Stock Entry (docstatus 1 -> 2); the hooks'
\* existence filters count only the entries that are not cancelled.
cancel_stock_entry ==
    \E se \in stock_entries :
        /\ se.docstatus = 1
        /\ stock_entries' = set_docstatus(stock_entries, se.name, 2)

\* ------------------------------------------------------------------------
\* ProductionLogSheet.on_submit (doctype/production_log_sheet)
\* ------------------------------------------------------------------------
sheet_name == "PLS-1"

RawRows ==
    [item_code : {None, "RM"}, source_warehouse : {None, "Stores"},
     consumption : {0, 5}]

DetailRows ==
    [item_code : {None, "FG", "SC"}, target_warehouse : {None, "FG-WH"},
     manufactured_qty : {0, 3}, stock_uom : {None, "Nos"}]

Sheets ==
    [name : {sheet_name},
     production_date : {None, "2026-01-05"},
     production_time : {None, "08:00"},
     manufacturing_item : {"FG"},
     raw_material_consumption : SeqsUpTo(RawRows, MaxSheetRows),
     production_details : SeqsUpTo(DetailRows, MaxSheetRows),
     stock_entry_no : {0}]

\* The steps of the creation that the framework may fail.
SheetFaults == {"none", "insert", "calculate_rate_and_amount", "save", "submit", "db_set"}

\* Lines 141-166: the source rows; [items, error].  The row's stock_uom is
\* copied to the item as it is and left out of the rows here.
RECURSIVE sheet_source_items(_, _)
sheet_source_items(rows, acc) ==
    IF rows = <<>> \/ acc.error # None THEN acc
    ELSE LET row == Head(rows)
         IN IF row.item_code = None THEN sheet_source_items(Tail(rows), acc)
            ELSE IF row.source_warehouse = None
                 THEN [acc EXCEPT !.error = "Source Warehouse is required"]
            ELSE IF row.consumption <= 0 THEN sheet_source_items(Tail(rows), acc)
            ELSE sheet_source_items(Tail(rows),
                    [acc EXCEPT !.items = Append(@,
                        [s_warehouse |-> row.source_warehouse, t_warehouse |-> None,
                         item_code |-> row.item_code, qty |-> row.consumption,
                         uom |-> None, is_finished_item |-> 0])])

\* Lines 171-219: the target rows; item_uom is the Item master's stock_uom.
RECURSIVE sheet_target_items(_, _, _, _)
sheet_target_items(rows, doc, item_uom, acc) ==
    IF rows = <<>> \/ acc.error # None THEN acc
    ELSE LET row == Head(rows)
             uom == IF row.stock_uom # None THEN row.stock_uom ELSE item_uom
             is_main_item == row.item_code = doc.manufacturing_item
             should_mark_finished == is_main_item \/ ~acc.finished_item_marked
         IN IF row.item_code = None
            THEN sheet_target_items(Tail(rows), doc, item_uom, acc)
            ELSE IF row.target_warehouse = None
                 THEN [acc EXCEPT !.error = "Target Warehouse is required"]
            ELSE IF row.manufactured_qty <= 0
                 THEN sheet_target_items(Tail(rows), doc, item_uom, acc)
            ELSE IF uom = None THEN [acc EXCEPT !.error = "Stock UOM not found"]
            ELSE sheet_target_items(Tail(rows), doc, item_uom,
                    [acc EXCEPT
                        !.items = Append(@,
                            [s_warehouse |-> None, t_warehouse |-> row.target_warehouse,
                             item_code |-> row.item_code, qty |-> row.manufactured_qty,
                             uom |-> uom,
                             is_finished_item |-> IF should_mark_finished THEN 1 ELSE 0]),
                        !.finished_item_marked = @ \/ should_mark_finished])

sheet_items(doc, item_uom) ==
    sheet_target_items(doc.production_details, doc, item_uom,
        sheet_source_items(doc.raw_material_consumption,
            [items |-> <<>>, error |-> None, finished_item_marked |-> FALSE]))

\* Lines 56-83: the validations before the try block, "" when all pass.
sheet_validation(doc) ==
    IF doc.production_date = None \/ doc.production_time = None
    THEN "Production Date and Production Time are required"
    ELSE IF doc.raw_material_consumption = <<>>
    THEN "Raw Material Consumption table is empty"
    ELSE IF ~\E i \in 1..Len(doc.raw_material_consumption) :
                doc.raw_material_consumption[i].consumption > 0
    THEN "No raw material consumption quantity found"
    ELSE IF ~\E i \in 1..Len(doc.production_details) :
                doc.production_details[i].manufactured_qty > 0
    THEN "Production Details table must have items with quantities"
    ELSE ""

\* What a handler leaves: the tables as written so far and how it ended.
\* logged holds the titles the handler passed to frappe.log_error.
Outcome(ses, doc, ret) == [ses |-> ses, doc |-> doc, ret |-> ret, logged |-> {}]

\* A handler that swallows the failure: the writes stay, nothing is raised.
sheet_failure_swallowed(out, error) ==
    [out EXCEPT !.ret = Returned(FALSE, error)]

\* Lines 251-256: the except clause re-raises with frappe.throw.
sheet_failure(out, error) ==
    [out EXCEPT !.ret = Raised("Failed to create Manufacture Stock Entry")]

\* Lines 229-249: insert, rates, save, submit, then db_set of stock_entry_no.
sheet_create(ses, doc, se, fault) ==
    LET inserted == ses \cup {se}
        submitted == set_docstatus(inserted, se.name, 1)
    IN IF fault = "insert" THEN sheet_failure(Outcome(ses, doc, None), fault)
       ELSE IF fault \in {"calculate_rate_and_amount", "save", "submit"}
            THEN sheet_failure(Outcome(inserted, doc, None), fault)
       ELSE IF fault = "db_set"
            THEN sheet_failure(Outcome(submitted, doc, None), fault)
       ELSE Outcome(submitted, [doc EXCEPT !.stock_entry_no = se.name],
                    Returned(TRUE, "created"))

\* Lines 85-227: the try block up to the insert.
sheet_try(ses, doc, built, fault) ==
    IF built.error # None THEN sheet_failure(Outcome(ses, doc, None), built.error)
    ELSE IF built.items = <<>>
         THEN sheet_failure(Outcome(ses, doc, None), "No valid Stock Entry rows")
    ELSE sheet_create(ses, doc,
            [new_stock_entry(ses, "Manufacture", doc.name, built.items)
                EXCEPT !.production_log_sheet = doc.name],
            fault)

\* A duplicate check that never finds the linked Stock Entry.
sheet_stock_entry_never_found(ses, doc) == {}

\* Lines 49-51: frappe.db.exists("Stock Entry", {production_log_sheet, docstatus != 2}).
sheet_existing_stock_entry(ses, doc) ==
    { se \in ses : se.production_log_sheet = doc.name /\ se.docstatus # 2 }

\* on_submit as a whole.
sheet_on_submit(ses, doc, item_uom, fault) ==
    IF sheet_existing_stock_entry(ses, doc) # {}
    THEN Outcome(ses, doc, Returned(TRUE, "exists"))
    ELSE IF sheet_validation(doc) # ""
    THEN Outcome(ses, doc, Raised(sheet_validation(doc)))
    ELSE sheet_try(ses, doc, sheet_items(doc, item_uom), fault)

\* The framework around a hook: an exception leaving it rolls the request's
\* writes back.
request(ses, doc, out) ==
    IF out.ret.raised THEN [out EXCEPT !.ses = ses, !.doc = doc] ELSE out

sheet_never_run == [called |-> FALSE, ret |-> Returned(FALSE, ""), fault |-> "none",
                    had_entry |-> FALSE, no_before |-> 0, entries_before |-> {}]

sheet_effect(out, fault) ==
    /\ stock_entries' = out.ses
    /\ sheet' = out.doc
    /\ sheet_run' = [called |-> TRUE, ret |-> out.ret, fault |-> fault,
                     had_entry |-> \E se \in stock_entries :
                                      /\ se.production_log_sheet = sheet.name
                                      /\ se.docstatus # 2,
                     no_before |-> sheet.stock_entry_no,
                     entries_before |-> { se.name : se \in stock_entries }]

ProductionLogSheet_on_submit ==
    /\ Cardinality(stock_entries) < MaxStockEntries
    /\ \E fault \in SheetFaults, item_uom \in {None, "Nos"} :
          sheet_effect(request(stock_entries, sheet,
                               sheet_on_submit(stock_entries, sheet, item_uom, fault)),
                       fault)

SheetStart ==
    /\ sheet \in Sheets
    /\ sheet_run = sheet_never_run

SheetIdle ==
    /\ sheet = CHOOSE d \in Sheets : TRUE
    /\ sheet_run = sheet_never_run

\* ------------------------------------------------------------------------
\* RecycleMachineDailyProduction.on_submit
\* ------------------------------------------------------------------------
recycle_name == "RMDP-1"

RecycleRows ==
    [item_code : {None, "GR"}, grinding_mip_source_warehouse : {"Grinding - HEX"},
     material_consumed : {-1, 0, 4},
     pp_mip_item : {"PP"}, pp_mip_target_warehouse : {None, "PP - HEX"},
     pp_mip_production : {-1, 0, 2}]

Recycles ==
    [name : {recycle_name},
     production_details : SeqsUpTo(RecycleRows, MaxRecycleRows),
     stock_entry_no : {0}]

RecycleFaults == {"none", "insert", "calculate_rate_and_amount", "save", "submit", "db_set"}

no_items == [items |-> <<>>, error |-> None]

\* stock_entry.append("items", made) unless building the item raised.
append_item(acc, made) ==
    IF made.error # None THEN [acc EXCEPT !.error = made.error]
    ELSE [acc EXCEPT !.items = Append(@, made.item)]

\* Lines 190-230 (and lines 354-397 of the Production Log Book controller,
\* which is the same helper): [error, item].
_make_stock_entry_item(item_code, qty, s_warehouse, t_warehouse, is_finished_item, is_scrap_item) ==
    [error |-> IF item_code = None THEN "Item Code is mandatory"
               ELSE IF s_warehouse = None /\ t_warehouse = None
                    THEN "Warehouse is mandatory"
               ELSE IF qty < 0 THEN "Quantity cannot be negative"
               ELSE None,
     item |-> [item_code |-> item_code, qty |-> qty,
               s_warehouse |-> s_warehouse, t_warehouse |-> t_warehouse,
               is_finished_item |-> is_finished_item,
               is_scrap_item |-> is_scrap_item]]

\* Lines 139-162: the source item of a row.
recycle_source_item(acc, row) ==
    IF row.item_code # None /\ row.grinding_mip_source_warehouse # None
    THEN IF row.material_consumed < 0
         THEN [acc EXCEPT !.error = "Material Consumed cannot be negative"]
         ELSE IF row.material_consumed > 0
         THEN append_item(acc,
                _make_stock_entry_item(row.item_code, row.material_consumed,
                    row.grinding_mip_source_warehouse, None, 0, 0))
         ELSE acc
    ELSE acc

\* Lines 164-187: the target item of a row.
recycle_target_item(acc, row) ==
    IF acc.error # None THEN acc
    ELSE IF row.pp_mip_item # None /\ row.pp_mip_target_warehouse # None
    THEN IF row.pp_mip_production < 0
         THEN [acc EXCEPT !.error = "PP MIP Production cannot be negative"]
         ELSE IF row.pp_mip_production > 0
         THEN append_item(acc,
                _make_stock_entry_item(row.pp_mip_item, row.pp_mip_production,
                    None, row.pp_mip_target_warehouse, 1, 0))
         ELSE acc
    ELSE acc

_add_items_from_production_row(acc, row) ==
    recycle_target_item(recycle_source_item(acc, row), row)

\* Lines 85-86: the loop over production_details; a throw ends it.
RECURSIVE recycle_items(_, _)
recycle_items(rows, acc) ==
    IF rows = <<>> \/ acc.error # None THEN acc
    ELSE recycle_items(Tail(rows), _add_items_from_production_row(acc, Head(rows)))

\* Lines 36-62: the validations before the try block, "" when all pass.
recycle_validation(doc) ==
    LET rows == doc.production_details
        has_valid_source ==
            \E i \in 1..Len(rows) :
                /\ rows[i].item_code # None
                /\ rows[i].grinding_mip_source_warehouse # None
                /\ rows[i].material_consumed > 0
        has_valid_target ==
            \E i \in 1..Len(rows) :
                /\ rows[i].pp_mip_item # None
                /\ rows[i].pp_mip_target_warehouse # None
                /\ rows[i].pp_mip_production > 0
    IN IF rows = <<>> THEN "Production Details table is empty"
       ELSE IF ~has_valid_source THEN "No valid source items found"
       ELSE IF ~has_valid_target THEN "No valid target items found"
       ELSE ""

\* Lines 116-126: the except clause logs and re-raises with frappe.throw.
recycle_failure(out, error) ==
    [out EXCEPT !.ret = Raised("Failed to create Manufacture Stock Entry"),
                !.logged = @ \cup {"Error creating Stock Entry for Recycle Machine Daily Production"}]

\* Lines 94-108: insert, rates, save, submit, then db_set of stock_entry_no.
recycle_create(ses, doc, se, fault) ==
    LET inserted == ses \cup {se}
        submitted == set_docstatus(inserted, se.name, 1)
    IN IF fault = "insert" THEN recycle_failure(Outcome(ses, doc, None), fault)
       ELSE IF fault \in {"calculate_rate_and_amount", "save", "submit"}
            THEN recycle_failure(Outcome(inserted, doc, None), fault)
       ELSE IF fault = "db_set"
            THEN recycle_failure(Outcome(submitted, doc, None), fault)
       ELSE Outcome(submitted, [doc EXCEPT !.stock_entry_no = se.name],
                    Returned(TRUE, "created"))

\* Lines 64-92: the try block up to the insert.
recycle_try(ses, doc, built, fault) ==
    IF built.error # None THEN recycle_failure(Outcome(ses, doc, None), built.error)
    ELSE IF built.items = <<>>
         THEN recycle_failure(Outcome(ses, doc, None), "No valid Stock Entry Items")
    ELSE recycle_create(ses, doc,
            new_stock_entry(ses, "Manufacture", doc.name, built.items), fault)

\* An on_submit that does not look at stock_entry_no.
recycle_guard_missing(doc) == FALSE

\* Line 28: if self.stock_entry_no.
recycle_guard(doc) == doc.stock_entry_no # 0

recycle_on_submit(ses, doc, fault) ==
    IF recycle_guard(doc) THEN Outcome(ses, doc, Returned(TRUE, "exists"))
    ELSE IF recycle_validation(doc) # ""
    THEN Outcome(ses, doc, Raised(recycle_validation(doc)))
    ELSE recycle_try(ses, doc, recycle_items(doc.production_details, no_items), fault)

recycle_never_run == [called |-> FALSE, ret |-> Returned(FALSE, ""), fault |-> "none",
                      logged |-> {}, no_before |-> 0, entries_before |-> {}]

recycle_effect(out, fault) ==
    /\ stock_entries' = out.ses
    /\ recycle' = out.doc
    /\ recycle_run' = [called |-> TRUE, ret |-> out.ret, fault |-> fault,
                       logged |-> out.logged,
                       no_before |-> recycle.stock_entry_no,
                       entries_before |-> { se.name : se \in stock_entries }]

RecycleMachineDailyProduction_on_submit ==
    /\ Cardinality(stock_entries) < MaxStockEntries
    /\ \E fault \in RecycleFaults :
          recycle_effect(request(stock_entries, recycle,
                                 recycle_on_submit(stock_entries, recycle, fault)),
                         fault)

RecycleStart ==
    /\ recycle \in Recycles
    /\ recycle_run = recycle_never_run

RecycleIdle ==
    /\ recycle = CHOOSE d \in Recycles : TRUE
    /\ recycle_run = recycle_never_run

\* ------------------------------------------------------------------------
\* ProductionLogBook.on_submit (doctype/production_log_book)
\* ------------------------------------------------------------------------
book_name == "PLB-1"

MaterialRows ==
    [item_code : {None, "IT"}, source_warehouse : {None, "Stores - HEX"},
     target_warhouse : {None, "FG - HEX"},
     consumption : {-1, 0, 5}, in_qty : {-1, 0, 3},
     item_type : {None, "Main Item", " Main Item ", "Scrap Item"}]

Books ==
    [name : {book_name},
     closing_qty : {-1, 0, 7},
     hopper_and_tray_item : {None, "HOPPER"},
     material_consumption : SeqsUpTo(MaterialRows, MaxBookRows),
     stock_entry_no : {0},
     hopper_stock_entry_no : {0}]

NoBookFault == [part |-> "none", step |-> "none"]
BookFaults ==
    {NoBookFault}
    \cup [part : {"manufacture"},
          step : {"insert", "calculate_rate_and_amount", "save", "submit", "set_value"}]
    \cup [part : {"hopper"},
          step : {"exists", "insert", "save", "submit", "submit_half_done", "set_value"}]

\* (row.item_type or "").strip()
strip(item_type) ==
    IF item_type = None THEN ""
    ELSE IF item_type = " Main Item " THEN "Main Item"
    ELSE item_type

\* Lines 135-160: the raw-material item of a row.
book_source_item(acc, row) ==
    IF row.source_warehouse # None
    THEN IF row.consumption < 0
         THEN [acc EXCEPT !.error = "Consumption cannot be negative"]
         ELSE IF row.consumption > 0
         THEN append_item(acc,
                _make_stock_entry_item(row.item_code, row.consumption,
                    row.source_warehouse, None, 0, 0))
         ELSE acc
    ELSE acc

\* The target item with its two flags passed in each other's place.
book_target_item_flags_swapped(acc, row) ==
    IF acc.error # None THEN acc
    ELSE IF row.target_warhouse # None
    THEN IF row.in_qty < 0
         THEN [acc EXCEPT !.error = "In Qty cannot be negative"]
         ELSE append_item(acc,
                _make_stock_entry_item(row.item_code, row.in_qty,
                    None, row.target_warhouse,
                    IF strip(row.item_type) = "Scrap Item" THEN 1 ELSE 0,
                    IF strip(row.item_type) = "Main Item" THEN 1 ELSE 0))
    ELSE acc

\* Lines 162-194: the main / scrap item of a row, appended even when qty is 0.
book_target_item(acc, row) ==
    IF acc.error # None THEN acc
    ELSE IF row.target_warhouse # None
    THEN IF row.in_qty < 0
         THEN [acc EXCEPT !.error = "In Qty cannot be negative"]
         ELSE append_item(acc,
                _make_stock_entry_item(row.item_code, row.in_qty,
                    None, row.target_warhouse,
                    IF strip(row.item_type) = "Main Item" THEN 1 ELSE 0,
                    IF strip(row.item_type) = "Scrap Item" THEN 1 ELSE 0))
    ELSE acc

\* Lines 196-202: quantities without any warehouse.
book_no_warehouse(acc, row) ==
    IF acc.error # None THEN acc
    ELSE IF row.source_warehouse = None /\ row.target_warhouse = None
            /\ (row.consumption > 0 \/ row.in_qty > 0)
    THEN [acc EXCEPT !.error = "Either Source Warehouse or Target Warehouse must be set"]
    ELSE acc

_add_items_from_material_row(acc, row) ==
    book_no_warehouse(book_target_item(book_source_item(acc, row), row), row)

\* Lines 85-86: the loop over material_consumption; a throw ends it.
RECURSIVE book_items(_, _)
book_items(rows, acc) ==
    IF rows = <<>> \/ acc.error # None THEN acc
    ELSE book_items(Tail(rows), _add_items_from_material_row(acc, Head(rows)))

\* Lines 96-121: insert, rates, save, submit, then set_value of stock_entry_no.
\* Nothing catches a failure here.
book_manufacture_create(ses, doc, se, fault) ==
    IF fault.part = "manufacture"
    THEN Outcome(ses, doc, Raised(fault.step))
    ELSE Outcome(set_docstatus(ses \cup {se}, se.name, 1),
                 [doc EXCEPT !.stock_entry_no = se.name],
                 Returned(TRUE, "created"))

\* Lines 26-121.
create_stock_entry_for_production_log_book(ses, doc, built, fault) ==
    IF doc.material_consumption = <<>>
    THEN Outcome(ses, doc, Returned(TRUE, "Material Consumption table is empty"))
    ELSE IF built.error # None THEN Outcome(ses, doc, Raised(built.error))
    ELSE IF built.items = <<>>
    THEN Outcome(ses, doc, Returned(TRUE, "No valid Stock Entry Items"))
    ELSE book_manufacture_create(ses, doc,
            new_stock_entry(ses, "Manufacture", doc.name, built.items), fault)

\* Lines 539-549: the except clause logs and lets the submission go on.
hopper_failure(out) ==
    [out EXCEPT !.ret = Returned(FALSE, "Could not create Hopper Stock Entry"),
                !.logged = @ \cup {"Hopper Stock Entry Creation Failed"}]

\* Lines 492-538: insert, save, submit and the optional back reference.  A
\* submit that fails may already have written docstatus 1.
hopper_create(ses, doc, se, fault) ==
    LET inserted == ses \cup {se}
        submitted == set_docstatus(inserted, se.name, 1)
    IN IF fault.part # "hopper"
       THEN Outcome(submitted, doc, Returned(TRUE, "created"))
       ELSE IF fault.step = "insert" THEN hopper_failure(Outcome(ses, doc, None))
       ELSE IF fault.step \in {"save", "submit"}
            THEN hopper_failure(Outcome(inserted, doc, None))
       ELSE hopper_failure(Outcome(submitted, doc, None))

\* A duplicate check that only counts submitted entries.
hopper_existing_submitted_only(ses, doc, linked) ==
    { se \in ses : /\ se.stock_entry_type = "Material Receipt"
                   /\ se.custom_production_log_book = doc.name
                   /\ se.docstatus = 1 }

\* Lines 434-441: frappe.db.exists with the link and docstatus in [0, 1];
\* without the column the lookup finds nothing.
hopper_existing_entry(ses, doc, linked) ==
    IF linked
    THEN { se \in ses : /\ se.stock_entry_type = "Material Receipt"
                        /\ se.custom_production_log_book = doc.name
                        /\ se.docstatus \in {0, 1} }
    ELSE {}

\* Lines 461-489: the new Material Receipt, linked when the column exists.
hopper_stock_entry(ses, doc, linked) ==
    [new_stock_entry(ses, "Material Receipt", doc.name,
        << [item_code |-> doc.hopper_and_tray_item, qty |-> doc.closing_qty,
            s_warehouse |-> None, t_warehouse |-> "Production - HEX",
            is_finished_item |-> 0, is_scrap_item |-> 0] >>)
     EXCEPT !.custom_production_log_book = IF linked THEN doc.name ELSE None]

\* Lines 400-549.
create_hopper_stock_entry(ses, doc, linked, fault) ==
    IF doc.closing_qty <= 0 THEN Outcome(ses, doc, Returned(TRUE, "no closing qty"))
    ELSE IF doc.hopper_and_tray_item = None
    THEN Outcome(ses, doc, Returned(TRUE, "Hopper & Tray Item is not set"))
    ELSE IF fault = [part |-> "hopper", step |-> "exists"]
    THEN Outcome(ses, doc, Raised("exists"))
    ELSE IF hopper_existing_entry(ses, doc, linked) # {}
    THEN Outcome(ses, doc, Returned(TRUE, "exists"))
    ELSE hopper_create(ses, doc, hopper_stock_entry(ses, doc, linked), fault)

\* Lines 17-23: the hopper part runs when the manufacture part returned.
book_then_hopper(made, linked, fault) ==
    IF made.ret.raised THEN made
    ELSE create_hopper_stock_entry(made.ses, made.doc, linked, fault)

book_on_submit(ses, doc, linked, fault) ==
    book_then_hopper(
        create_stock_entry_for_production_log_book(ses, doc,
            book_items(doc.material_consumption, no_items), fault),
        linked, fault)

receipts(ses) == { se.name : se \in { e \in ses : e.stock_entry_type = "Material Receipt" } }

book_never_run == [called |-> FALSE, ret |-> Returned(FALSE, ""), fault |-> NoBookFault,
                   logged |-> {}, hopper_existed |-> FALSE, receipts_before |-> {}]

book_effect(out, fault) ==
    /\ stock_entries' = out.ses
    /\ book' = out.doc
    /\ book_run' = [called |-> TRUE, ret |-> out.ret, fault |-> fault,
                    logged |-> out.logged,
                    hopper_existed |->
                        \E se \in stock_entries :
                            /\ se.stock_entry_type = "Material Receipt"
                            /\ se.custom_production_log_book = book.name
                            /\ se.docstatus \in {0, 1},
                    receipts_before |-> receipts(stock_entries)]
    /\ UNCHANGED has_link_column

ProductionLogBook_on_submit ==
    /\ Cardinality(stock_entries) + 2 <= MaxStockEntries
    /\ \E fault \in BookFaults :
          book_effect(request(stock_entries, book,
                              book_on_submit(stock_entries, book, has_link_column, fault)),
                      fault)

BookStart ==
    /\ book \in Books
    /\ has_link_column \in BOOLEAN
    /\ book_run = book_never_run

BookIdle ==
    /\ book = CHOOSE d \in Books : TRUE
    /\ has_link_column = TRUE
    /\ book_run = book_never_run

\* ------------------------------------------------------------------------
\* DailyRejectionData.validate
\* ------------------------------------------------------------------------
\* An optional number is <<>> (None) or <<n>>; "x or 0" in Python.
or_0(x) == IF x = <<>> THEN 0 ELSE x[1]

Count == {<<>>, <<1>>}

RejectionRows ==
    [shift_type : {"Day", "Night", "General"},
     box_rejected_by_die_punching : Count,
     box_rejected_by_printing : Count,
     box_rejected_by_bending : Count,
     box_rejected_by_stepling : Count,
     box_rejected_by_dry_problem : Count,
     row_total_rejection : {<<>>}]

Rejections ==
    [table_zsze : SeqsUpTo(RejectionRows, MaxRejectionRows),
     total_box_checked : {<<>>, <<-1>>, <<0>>, <<3>>},
     total_rejected_in_day_shift : {<<>>},
     total_rejected_in_night_shift : {<<>>},
     total_rejection : {<<>>},
     rejection_in_ : {<<>>}]

\* A row total that leaves out the dry-problem count.
row_total_without_dry_problem(row) ==
    or_0(row.box_rejected_by_die_punching) + or_0(row.box_rejected_by_printing)
    + or_0(row.box_rejected_by_bending) + or_0(row.box_rejected_by_stepling)

\* Lines 24-30.
row_total(row) ==
    or_0(row.box_rejected_by_die_punching) + or_0(row.box_rejected_by_printing)
    + or_0(row.box_rejected_by_bending) + or_0(row.box_rejected_by_stepling)
    + or_0(row.box_rejected_by_dry_problem)

no_totals == [rows |-> <<>>, day_total |-> 0, night_total |-> 0, overall_total |-> 0]

\* Lines 22-40: the loop over the child rows.
RECURSIVE sum_rows(_, _)
sum_rows(rows, acc) ==
    IF rows = <<>> THEN acc
    ELSE LET row == Head(rows)
             t == row_total(row)
         IN sum_rows(Tail(rows),
                [rows |-> Append(acc.rows, [row EXCEPT !.row_total_rejection = <<t>>]),
                 day_total |-> acc.day_total + (IF row.shift_type = "Day" THEN t ELSE 0),
                 night_total |-> acc.night_total
                                 + (IF row.shift_type = "Night" THEN t ELSE 0),
                 overall_total |-> acc.overall_total + t])

\* Lines 47-51: (overall_total / float(total_box_checked)) * 100 as an exact
\* fraction, 0 when total_box_checked is empty, zero or negative.
rejection_percent(overall_total, total_box_checked) ==
    IF total_box_checked # <<>> /\ total_box_checked[1] # 0 /\ total_box_checked[1] > 0
    THEN [num |-> overall_total * 100, den |-> total_box_checked[1]]
    ELSE [num |-> 0, den |-> 1]

validate(doc, sums) ==
    [doc EXCEPT !.table_zsze = sums.rows,
                !.total_rejected_in_day_shift = <<sums.day_total>>,
                !.total_rejected_in_night_shift = <<sums.night_total>>,
                !.total_rejection = <<sums.overall_total>>,
                !.rejection_in_ =
                    <<rejection_percent(sums.overall_total, doc.total_box_checked)>>]

DailyRejectionData_validate ==
    /\ rejection' = validate(rejection, sum_rows(rejection.table_zsze, no_totals))
    /\ rejection_run' = [called |-> TRUE, before |-> rejection]

RejectionStart ==
    /\ rejection \in Rejections
    /\ rejection_run = [called |-> FALSE, before |-> rejection]

RejectionIdle ==
    /\ rejection = CHOOSE d \in Rejections : TRUE
    /\ rejection_run = [called |-> FALSE, before |-> rejection]

\* ------------------------------------------------------------------------
\* get_previous_closing_stock (api/production_log_book)
\* ------------------------------------------------------------------------
\* Dates are day numbers; max_days_back is the constant of the search loop.
max_days_back == 30

the_item == "ITEM-X"

NoRow == [present |-> FALSE, closing_stock |-> <<>>]
ItemRow(closing_stock) == [present |-> TRUE, closing_stock |-> closing_stock]

\* A Production Log Book as the lookup sees it; item_row is its child row
\* for the_item.  creation is the document's position in log_books.  The
\* hopper and MIP closing quantities of the parent are left unset here.
LogBooks(n) ==
    [name : {n}, production_date : {0, 1, 30, 31}, shift_type : {"Day", "Night", "Both"},
     docstatus : {0, 1}, item_row : {NoRow, ItemRow(<<>>), ItemRow(<<10 + n>>)},
     closing_qty : {<<>>}, closing_qty_mip : {<<>>}]

Date(day) == [fmt |-> "iso", day |-> day]
NoDate == [fmt |-> "none", day |-> 0]
BadDate == [fmt |-> "bad", day |-> 0]

Query(item_code, current_date, current_shift, exclude_docname, fault) ==
    [item_code |-> item_code, current_date |-> current_date,
     current_shift |-> current_shift, exclude_docname |-> exclude_docname,
     fault |-> fault]

stock_never_run ==
    [called |-> FALSE, endpoint |-> None, value |-> 0, examined |-> 0, logged |-> {}]

\* The calls made; exclude_docname 0 is None, fault a database error.
Queries ==
    { Query(the_item, Date(31), sh, ex, FALSE) :
        sh \in {"Day", "Night", "Both", " NIGHT "}, ex \in 0..MaxLogBooks }
    \cup { Query(None, Date(31), "Day", 0, FALSE),
           Query(the_item, NoDate, "Day", 0, FALSE),
           Query(the_item, BadDate, "Day", 0, FALSE),
           Query(the_item, Date(31), None, 0, FALSE),
           Query(the_item, Date(31), "Day", 0, TRUE) }

\* current_shift.strip().lower(), then "both" is treated as "day".
normalize_shift(current_shift) ==
    LET lowered == CASE current_shift = "Day" -> "day"
                     [] current_shift = "Night" -> "night"
                     [] current_shift = " NIGHT " -> "night"
                     [] current_shift = "Both" -> "both"
                     [] OTHER -> current_shift
    IN IF lowered = "both" THEN "day" ELSE lowered

Slot(date, shift) == [date |-> date, shift |-> shift]

\* The loop running one day too far (days_checked <= max_days_back).
previous_days_one_more(check_date) ==
    [k \in 1..(2 * (max_days_back + 1)) |->
        Slot(check_date - ((k - 1) \div 2), IF k % 2 = 1 THEN "Night" ELSE "Day")]

\* The loop with its two appends exchanged: Day before Night.
previous_days_day_first(check_date) ==
    [k \in 1..(2 * max_days_back) |->
        Slot(check_date - ((k - 1) \div 2), IF k % 2 = 1 THEN "Day" ELSE "Night")]

\* Lines 354-358 and 365-369: the while loop over the previous days appends
\* (check_date, Night), (check_date, Day) for max_days_back days.
previous_days(check_date) ==
    [k \in 1..(2 * max_days_back) |->
        Slot(check_date - ((k - 1) \div 2), IF k % 2 = 1 THEN "Night" ELSE "Day")]

\* Lines 341-369.
search_sequence(current_date_obj, current_shift) ==
    IF current_shift = "night"
    THEN <<Slot(current_date_obj, "Day")>> \o previous_days(current_date_obj - 1)
    ELSE previous_days(current_date_obj - 1)

\* Lines 374-391: the submitted documents of a slot, creation desc, limit 1.
newest_of_slot(books, slot, exclude_docname) ==
    LET matching == { i \in 1..Len(books) :
                        /\ books[i].production_date = slot.date
                        /\ books[i].shift_type = slot.shift
                        /\ books[i].docstatus = 1
                        /\ (exclude_docname # 0 => books[i].name # exclude_docname) }
    IN IF matching = {} THEN <<>> ELSE <<books[Greatest(matching)]>>

\* Lines 393-404: the closing stock the item's child row of the document
\* holds, <<>> without a document, a row or a value.
closing_stock_of(plb_docs) ==
    IF plb_docs # <<>> /\ plb_docs[1].item_row.present
    THEN plb_docs[1].item_row.closing_stock
    ELSE <<>>

\* Lines 372-409: the first slot whose newest document holds a closing
\* stock for the item; 0 when the sequence ends.  examined counts the
\* iterations of the for loop.
RECURSIVE search(_, _, _, _)
search(books, slots, i, exclude_docname) ==
    IF i > Len(slots) THEN [value |-> 0, examined |-> Len(slots)]
    ELSE IF closing_stock_of(newest_of_slot(books, slots[i], exclude_docname)) # <<>>
    THEN [value |-> closing_stock_of(newest_of_slot(books, slots[i], exclude_docname))[1],
          examined |-> i]
    ELSE search(books, slots, i + 1, exclude_docname)

\* Lines 411-417: any exception is logged and 0 is returned.
stock_failure ==
    [value |-> 0, examined |-> 0, logged |-> {"Error fetching previous closing stock"}]

found_nothing == [value |-> 0, examined |-> 0, logged |-> {}]

\* The value of a search that met no exception.
searched(found) == [value |-> found.value, examined |-> found.examined, logged |-> {}]

\* Lines 321-417.
get_previous_closing_stock(books, q) ==
    IF q.item_code = None \/ q.current_date.fmt = "none" \/ q.current_shift = None
    THEN found_nothing
    ELSE IF q.current_date.fmt = "bad" \/ q.fault THEN stock_failure
    ELSE searched(search(books,
                         search_sequence(q.current_date.day,
                                         normalize_shift(q.current_shift)),
                         1, q.exclude_docname))

stock_effect(endpoint, out) ==
    /\ stock_run' = [called |-> TRUE, endpoint |-> endpoint, value |-> out.value,
                     examined |-> out.examined, logged |-> out.logged]
    /\ UNCHANGED <<log_books, stock_query>>

get_previous_closing_stock_call ==
    stock_effect("get_previous_closing_stock",
                 get_previous_closing_stock(log_books, stock_query))

\* flt(value) or 0.0 of a field that may be null.
flt_or_0(value) == IF value = <<>> THEN 0 ELSE value[1]

\* Lines 536-562 and 641-664: the first slot that has a document answers
\* with the parent field, whatever it holds.
RECURSIVE search_parent(_, _, _, _, _)
search_parent(books, slots, i, exclude_docname, fieldname) ==
    IF i > Len(slots) THEN [value |-> 0, examined |-> Len(slots)]
    ELSE IF newest_of_slot(books, slots[i], exclude_docname) # <<>>
    THEN [value |-> flt_or_0(newest_of_slot(books, slots[i], exclude_docname)[1][fieldname]),
          examined |-> i]
    ELSE search_parent(books, slots, i + 1, exclude_docname, fieldname)

\* Lines 489-570 and 596-671: the body shared by the hopper and the MIP
\* lookup, which differ in the parent field read and the title logged.
previous_opening_qty(books, q, fieldname, title) ==
    IF q.current_date.fmt = "none" \/ q.current_shift = None THEN found_nothing
    ELSE IF q.current_date.fmt = "bad" \/ q.fault
    THEN [value |-> 0, examined |-> 0, logged |-> {title}]
    ELSE searched(search_parent(books,
                                search_sequence(q.current_date.day,
                                                normalize_shift(q.current_shift)),
                                1, q.exclude_docname, fieldname))

get_previous_hopper_opening_qty(books, q) ==
    previous_opening_qty(books, q, "closing_qty",
                         "Error fetching previous hopper opening qty")

get_previous_mip_opening_qty(books, q) ==
    previous_opening_qty(books, q, "closing_qty_mip",
                         "Error fetching previous MIP opening qty")

get_previous_hopper_opening_qty_call ==
    stock_effect("get_previous_hopper_opening_qty",
                 get_previous_hopper_opening_qty(log_books, stock_query))

get_previous_mip_opening_qty_call ==
    stock_effect("get_previous_mip_opening_qty",
                 get_previous_mip_opening_qty(log_books, stock_query))

\* The Production Log Books on file, oldest first.
RECURSIVE LogBookTables(_)
LogBookTables(n) ==
    IF n = 0 THEN {<<>>}
    ELSE LogBookTables(n - 1)
         \cup { Append(t, doc) :
                  t \in { u \in LogBookTables(n - 1) : Len(u) = n - 1 },
                  doc \in LogBooks(n) }

StockStart ==
    /\ log_books \in LogBookTables(MaxLogBooks)
    /\ stock_query \in Queries
    /\ stock_run = stock_never_run

\* The tables the three lookups are compared on: documents at both ends of
\* the search window and on either side of it, the current date being 31.
OpeningBooks(n) ==
    [name : {n}, production_date : {0, 1, 31, 32}, shift_type : {"Day", "Night"},
     docstatus : {0, 1}, item_row : {NoRow, ItemRow(<<10 + n>>)},
     closing_qty : {<<>>, <<20 + n>>}, closing_qty_mip : {<<30 + n>>}]

RECURSIVE OpeningTables(_)
OpeningTables(n) ==
    IF n = 0 THEN {<<>>}
    ELSE OpeningTables(n - 1)
         \cup { Append(t, doc) :
                  t \in { u \in OpeningTables(n - 1) : Len(u) = n - 1 },
                  doc \in OpeningBooks(n) }

OpeningQueries ==
    { Query(the_item, Date(31), sh, ex, FALSE) :
        sh \in {"Day", "Night", "Both"}, ex \in {0, 1} }
    \cup { Query(the_item, BadDate, "Day", 0, FALSE),
           Query(the_item, Date(31), None, 0, FALSE),
           Query(the_item, Date(31), "Night", 0, TRUE) }

OpeningStart ==
    /\ log_books \in OpeningTables(MaxLogBooks)
    /\ stock_query \in OpeningQueries
    /\ stock_run = stock_never_run

\* ------------------------------------------------------------------------
\* Whitelisted API functions: get_last_5_avg_rate, get_bom_items_only,
\* get_bom_main_and_scrap_items, get_bom_item_quantities,
\* calculate_scrap_in_qty
\* ------------------------------------------------------------------------
\* The number of latest Purchase Order Items averaged.
last_5 == 5

\* What a database call of the body raises, if anything.
EntryFaults == {"none", "DoesNotExistError", "Exception"}

Number(num, den) == [kind |-> "number", num |-> num, den |-> den]
List(items) == [kind |-> "list", items |-> items]
Dict(num, den) == [kind |-> "dict", num |-> num, den |-> den]
NoValue == [kind |-> "none"]

Result(ret, value, logged) == [ret |-> ret, value |-> value, logged |-> logged]
returned(value) == Result(Returned(TRUE, ""), value, {})

\* sum(rates) with rates = [float(row.rate or 0) ...].
RECURSIVE sum(_)
sum(rates) == IF rates = <<>> THEN 0 ELSE or_0(Head(rates)) + sum(Tail(rates))

\* Lines 17-57 of api/purchase_order: all_items holds the rates, newest
\* first.  Nothing catches what frappe.get_all raises.
get_last_5_avg_rate(item_code, all_items, fault) ==
    IF item_code = None THEN returned(Number(0, 1))
    ELSE IF fault # "none" THEN Result(Raised(fault), NoValue, {})
    ELSE IF Len(all_items) = 0 THEN returned(Number(0, 1))
    ELSE LET items_to_use == IF Len(all_items) >= last_5
                             THEN SubSeq(all_items, 1, last_5) ELSE all_items
             divisor == IF Len(all_items) >= last_5 THEN last_5 ELSE Len(all_items)
         IN returned(Number(sum(items_to_use), divisor))

\* The BOM table: the names that exist.
Boms == {"BOM-1"}

\* An except clause that returns the empty list after logging.
bom_failure_placeholder(fault) ==
    IF fault = "DoesNotExistError"
    THEN Result(Raised("BOM does not exist"), NoValue, {})
    ELSE Result(Returned(TRUE, ""), List(<<>>), {"Error fetching BOM items"})

\* Lines 42-48 of api/production_log_book: DoesNotExistError is re-thrown,
\* anything else (frappe.throw's ValidationError included) is logged and
\* re-thrown as "Error fetching BOM items".
bom_failure(fault) ==
    IF fault = "DoesNotExistError"
    THEN Result(Raised("BOM does not exist"), NoValue, {})
    ELSE Result(Raised("Error fetching BOM items"), NoValue,
                {"Error fetching BOM items"})

\* Lines 37-38: item["item_type"] = "BOM Item".
RECURSIVE flag_bom_items(_)
flag_bom_items(bom_items) ==
    IF bom_items = <<>> THEN <<>>
    ELSE <<[item_code |-> Head(bom_items), item_type |-> "BOM Item"]>>
         \o flag_bom_items(Tail(bom_items))

\* Lines 20-48.
get_bom_items_only(bom_name, bom_items, fault) ==
    IF bom_name = None THEN returned(List(<<>>))
    ELSE IF fault # "none" THEN bom_failure(fault)
    ELSE IF bom_name \notin Boms THEN bom_failure("ValidationError")
    ELSE returned(List(flag_bom_items(bom_items)))

\* {"main_item_code": .., "items": [..]} and {"bom_qty": .., "items": [..]}.
MainAndScrap(main_item_code, items) ==
    [kind |-> "main_and_scrap", main_item_code |-> main_item_code, items |-> items]
Quantities(bom_qty, items) == [kind |-> "quantities", bom_qty |-> bom_qty, items |-> items]

\* Lines 137-144.
main_and_scrap_failure(fault) ==
    IF fault = "DoesNotExistError"
    THEN Result(Raised("BOM does not exist"), NoValue, {})
    ELSE Result(Raised("Error fetching BOM main and scrap items"), NoValue,
                {"Error fetching BOM main and scrap items"})

\* Lines 118-133: every scrap row becomes an item of type "Scrap Item".
RECURSIVE flag_scrap_items(_)
flag_scrap_items(bom_scrap_items) ==
    IF bom_scrap_items = <<>> THEN <<>>
    ELSE <<[item_code |-> Head(bom_scrap_items), item_type |-> "Scrap Item"]>>
         \o flag_scrap_items(Tail(bom_scrap_items))

\* Lines 69-144; bom_item is the BOM's item (None when unset), whether or
\* not the Item master has it.
get_bom_main_and_scrap_items(bom_name, bom_item, bom_scrap_items, fault) ==
    IF bom_name = None THEN returned(MainAndScrap(None, <<>>))
    ELSE IF fault # "none" THEN main_and_scrap_failure(fault)
    ELSE IF bom_name \notin Boms THEN main_and_scrap_failure("ValidationError")
    ELSE returned(MainAndScrap(bom_item,
            (IF bom_item # None
             THEN <<[item_code |-> bom_item, item_type |-> "Main Item"]>> ELSE <<>>)
            \o flag_scrap_items(bom_scrap_items)))

\* Lines 207-214.
quantities_failure(fault) ==
    IF fault = "DoesNotExistError"
    THEN Result(Raised("BOM does not exist"), NoValue, {})
    ELSE Result(Raised("Error fetching BOM item quantities"), NoValue,
                {"Error fetching BOM item quantities"})

\* Lines 170-214; quantity is the BOM's quantity or null, bom_items the
\* BOM Item rows, item_codes the codes asked for (<<>> for none).
get_bom_item_quantities(bom_name, item_codes, quantity, bom_items, fault) ==
    IF bom_name = None THEN returned(Quantities(0, <<>>))
    ELSE IF fault # "none" THEN quantities_failure(fault)
    ELSE IF bom_name \notin Boms THEN quantities_failure("ValidationError")
    ELSE IF item_codes = <<>> THEN returned(Quantities(or_0(quantity), <<>>))
    ELSE returned(Quantities(or_0(quantity),
            SelectSeq(bom_items,
                      LAMBDA row : \E k \in 1..Len(item_codes) : item_codes[k] = row)))

\* Lines 287-295: DoesNotExistError is re-thrown, anything else is logged
\* and {"in_qty": 0.0} returned.
scrap_failure(fault) ==
    IF fault = "DoesNotExistError"
    THEN Result(Raised("BOM does not exist"), NoValue, {})
    ELSE Result(Returned(TRUE, ""), Dict(0, 1), {"Error calculating scrap in_qty"})

\* Lines 243-285; in_qty = (scrap_qty_from_bom / bom_main_qty) * manufactured_qty.
calculate_scrap_in_qty(bom_name, item_code, manufactured_qty, bom_main_qty, scrap_rows, fault) ==
    IF bom_name = None \/ item_code = None THEN returned(Dict(0, 1))
    ELSE IF manufactured_qty <= 0 THEN returned(Dict(0, 1))
    ELSE IF fault # "none" THEN scrap_failure(fault)
    ELSE IF bom_name \notin Boms THEN scrap_failure("ValidationError")
    ELSE IF bom_main_qty <= 0 THEN returned(Dict(0, 1))
    ELSE IF scrap_rows = <<>> THEN returned(Dict(0, 1))
    ELSE IF sum(scrap_rows) <= 0 THEN returned(Dict(0, 1))
    ELSE returned(Dict(sum(scrap_rows) * manufactured_qty, bom_main_qty))

entry_never_run == [endpoint |-> "none", args |-> <<>>, fault |-> "none",
                    ret |-> Returned(FALSE, ""), value |-> NoValue, logged |-> {}]

entry_effect(endpoint, args, fault, out) ==
    entry_run' = [endpoint |-> endpoint, args |-> args, fault |-> fault,
                  ret |-> out.ret, value |-> out.value, logged |-> out.logged]

get_last_5_avg_rate_call ==
    \E item_code \in {None, the_item},
       all_items \in SeqsUpTo({<<>>, <<10>>}, MaxOrderItems),
       fault \in EntryFaults :
        entry_effect("get_last_5_avg_rate",
                     [item_code |-> item_code, all_items |-> all_items], fault,
                     get_last_5_avg_rate(item_code, all_items, fault))

get_bom_items_only_call ==
    \E bom_name \in {None, "BOM-1", "BOM-404"},
       bom_items \in {<<>>, <<"RM-A", "RM-B">>},
       fault \in EntryFaults :
        entry_effect("get_bom_items_only",
                     [bom_name |-> bom_name, bom_items |-> bom_items], fault,
                     get_bom_items_only(bom_name, bom_items, fault))

get_bom_main_and_scrap_items_call ==
    \E bom_name \in {None, "BOM-1", "BOM-404"},
       bom_item \in {None, "FG-1"},
       bom_scrap_items \in {<<>>, <<"SCRAP-1">>},
       fault \in EntryFaults :
        entry_effect("get_bom_main_and_scrap_items",
                     [bom_name |-> bom_name, bom_item |-> bom_item,
                      bom_scrap_items |-> bom_scrap_items], fault,
                     get_bom_main_and_scrap_items(bom_name, bom_item,
                                                  bom_scrap_items, fault))

get_bom_item_quantities_call ==
    \E bom_name \in {None, "BOM-1", "BOM-404"},
       item_codes \in {<<>>, <<"RM-A">>},
       quantity \in {<<>>, <<2>>},
       bom_items \in {<<>>, <<"RM-A", "RM-B">>},
       fault \in EntryFaults :
        entry_effect("get_bom_item_quantities",
                     [bom_name |-> bom_name, item_codes |-> item_codes,
                      quantity |-> quantity, bom_items |-> bom_items], fault,
                     get_bom_item_quantities(bom_name, item_codes, quantity,
                                             bom_items, fault))

calculate_scrap_in_qty_call ==
    \E bom_name \in {None, "BOM-1", "BOM-404"},
       item_code \in {None, "SCRAP"},
       manufactured_qty \in {0, 6},
       bom_main_qty \in {0, 2},
       scrap_rows \in {<<>>, <<<<0>>>>, <<<<3>>>>, <<<<3>>, <<1>>>>},
       fault \in EntryFaults :
        entry_effect("calculate_scrap_in_qty",
                     [bom_name |-> bom_name, item_code |-> item_code,
                      manufactured_qty |-> manufactured_qty,
                      bom_main_qty |-> bom_main_qty, scrap_rows |-> scrap_rows],
                     fault,
                     calculate_scrap_in_qty(bom_name, item_code, manufactured_qty,
                                            bom_main_qty, scrap_rows, fault))

\* ------------------------------------------------------------------------
\* check_stock_levels_and_send_alert (tasks.py) and its manual tests
\* ------------------------------------------------------------------------
\* The warehouses the check sums over, and one it does not read.
warehouses == <<"Production - HEX", "Raw Material - HEX", "Finished Goods - HEX">>
Warehouses == {"Production - HEX", "Raw Material - HEX", "Finished Goods - HEX",
               "Stores - HEX"}

ItemCodes == {"ITEM-A", "ITEM-B"}
\* order_by="name".
ItemOrder == <<"ITEM-A", "ITEM-B">>

red_subject == "Stock Alert: Items Below Safety Stock Level"
green_subject == "Stock Status: All Items Have Correct Stock"

\* What may raise during one run: the Item query, a Bin query, sendmail.
AlertFaults == {"none", "get_all", "get_value", "sendmail"}

\* frappe.get_all("Item", filters={"disabled": 0, "safety_stock": [">", 0]}).
items_with_safety_stock(master) ==
    SelectSeq(ItemOrder,
              LAMBDA i : master[i].disabled = 0 /\ master[i].safety_stock > 0)

\* get_item_stock_quantity(item_code, warehouse)["actual_qty"]: the Bin's
\* actual_qty, 0 without a Bin.
get_item_stock_quantity(bin, item_code, warehouse) ==
    [actual_qty |-> IF bin[item_code][warehouse] = <<>> THEN 0
                    ELSE bin[item_code][warehouse][1]]

\* Lines 45-52: total_stock over the warehouses list.
RECURSIVE total_stock(_, _, _)
total_stock(bin, item_code, whs) ==
    IF whs = <<>> THEN 0
    ELSE get_item_stock_quantity(bin, item_code, Head(whs)).actual_qty
         + total_stock(bin, item_code, Tail(whs))

\* A comparison that also reports an item exactly at its safety stock.
at_or_below_safety_stock(total, safety_stock) == total <= safety_stock

\* Line 55.
below_safety_stock(total, safety_stock) == total < safety_stock

\* Lines 37-64.
RECURSIVE low_stock_items(_, _, _)
low_stock_items(master, bin, items) ==
    IF items = <<>> THEN <<>>
    ELSE LET item_code == Head(items)
             safety_stock == master[item_code].safety_stock
             total == total_stock(bin, item_code, warehouses)
         IN (IF below_safety_stock(total, safety_stock)
             THEN << [item_code |-> item_code, safety_stock |-> safety_stock,
                      current_stock |-> total] >>
             ELSE <<>>)
            \o low_stock_items(master, bin, Tail(items))

\* What a run of the check leaves: the sendmail calls made, the titles
\* logged with frappe.log_error, the value returned.
AlertOutcome(mails, logged, ret) ==
    [mails |-> mails, logged |-> logged, ret |-> ret, raised |-> FALSE]

\* Lines 219-222: the handler of the whole body logs and returns None.
alert_failure == AlertOutcome(<<>>, {"Stock Alert Check Error"}, "None")

\* Lines 66-217: the subject by the low stock items, one sendmail whose
\* failure is logged, and email_info returned either way.
send_alert(low, fault) ==
    AlertOutcome(<< [subject |-> IF low # <<>> THEN red_subject ELSE green_subject,
                     items |-> low,
                     sent |-> fault # "sendmail"] >>,
                 IF fault = "sendmail" THEN {"Stock Alert Email Error"} ELSE {},
                 "email_info")

\* Lines 11-222.
check_stock_levels_and_send_alert(master, bin, fault) ==
    IF fault = "get_all" THEN alert_failure
    ELSE IF items_with_safety_stock(master) = <<>>
    THEN AlertOutcome(<<>>, {"Stock Alert Check"}, "None")
    ELSE IF fault = "get_value" THEN alert_failure
    ELSE send_alert(low_stock_items(master, bin, items_with_safety_stock(master)), fault)

\* api/stock_monitoring.py lines 105-122.
test_stock_alert(out) ==
    IF out.raised
    THEN [out EXCEPT !.logged = @ \cup {"Stock Alert Test Error"},
                     !.ret = Returned(FALSE, "error"), !.raised = FALSE]
    ELSE [out EXCEPT !.ret = Returned(TRUE, "Stock alert check completed")]

\* test_stock_alert.py lines 11-33.
test(out) ==
    IF out.raised
    THEN [out EXCEPT !.logged = @ \cup {"Stock Alert Manual Test Error"},
                     !.ret = Raised("error")]
    ELSE [out EXCEPT !.ret = Returned(TRUE, "Success")]

\* The scheduler drops the value the task returns.
scheduled(out) == [out EXCEPT !.ret = Returned(FALSE, out.ret)]

alert_never_run ==
    [called |-> FALSE, endpoint |-> None, fault |-> "none", mails |-> <<>>,
     logged |-> {}, ret |-> Returned(FALSE, "")]

alert_effect(endpoint, fault, out) ==
    /\ alert_run' = [called |-> TRUE, endpoint |-> endpoint, fault |-> fault,
                     mails |-> out.mails, logged |-> out.logged, ret |-> out.ret]
    /\ UNCHANGED <<item_master, bins>>

check_stock_levels_and_send_alert_run ==
    \E fault \in AlertFaults :
        alert_effect("scheduler", fault,
                     scheduled(check_stock_levels_and_send_alert(item_master, bins, fault)))

test_stock_alert_call ==
    \E fault \in AlertFaults :
        alert_effect("test_stock_alert", fault,
                     test_stock_alert(check_stock_levels_and_send_alert(item_master, bins, fault)))

test_call ==
    \E fault \in AlertFaults :
        alert_effect("test", fault,
                     test(check_stock_levels_and_send_alert(item_master, bins, fault)))

AlertStart ==
    /\ item_master \in [ItemCodes -> [disabled : {0, 1}, safety_stock : {0, 2}]]
    /\ bins \in [ItemCodes -> [Warehouses -> {<<>>, <<1>>}]]
    /\ alert_run = alert_never_run

AlertIdle ==
    /\ item_master = [i \in ItemCodes |-> [disabled |-> 1, safety_stock |-> 0]]
    /\ bins = [i \in ItemCodes |-> [w \in Warehouses |-> <<>>]]
    /\ alert_run = alert_never_run

\* ------------------------------------------------------------------------
\* Specifications
\* ------------------------------------------------------------------------
HooksIdle == stock_entries = {} /\ SheetIdle /\ RecycleIdle /\ BookIdle
StockIdle ==
    /\ log_books = <<>>
    /\ stock_query = Query(None, NoDate, None, 0, FALSE)
    /\ stock_run = stock_never_run
EntryIdle == entry_run = entry_never_run

SyncInit == SyncStart /\ HooksIdle /\ RejectionIdle /\ StockIdle /\ EntryIdle /\ AlertIdle
SyncNext ==
    sync_yesterday_attendance
        /\ UNCHANGED <<stock_entries, sheet_vars, recycle_vars, book_vars,
                       rejection_vars, stock_vars, entry_run, alert_vars>>
SpecSync == SyncInit /\ [][SyncNext]_vars

\* The two runs of the sync, their steps interleaved in any order.
unchanged_by_sync ==
    UNCHANGED <<stock_entries, sheet_vars, recycle_vars, book_vars,
                rejection_vars, stock_vars, entry_run, alert_vars>>
ConcurrentNext ==
    \/ \E r \in Runs : sync_work(r) /\ unchanged_by_sync
    \/ \E r \in Runs : sync_finish(r) /\ unchanged_by_sync
SpecConcurrentSync == SyncInit /\ [][ConcurrentNext]_vars

others_idle == SyncIdle /\ RejectionIdle /\ StockIdle /\ EntryIdle /\ AlertIdle
others_unchanged ==
    UNCHANGED <<sync_vars, rejection_vars, stock_vars, entry_run, alert_vars>>

SheetInit ==
    others_idle /\ stock_entries = {} /\ SheetStart /\ RecycleIdle /\ BookIdle
SheetNext ==
    \/ ProductionLogSheet_on_submit
        /\ others_unchanged /\ UNCHANGED <<recycle_vars, book_vars>>
    \/ cancel_stock_entry
        /\ others_unchanged /\ UNCHANGED <<sheet_vars, recycle_vars, book_vars>>
SpecSheet == SheetInit /\ [][SheetNext]_vars

RecycleInit ==
    others_idle /\ stock_entries = {} /\ SheetIdle /\ RecycleStart /\ BookIdle
RecycleNext ==
    \/ RecycleMachineDailyProduction_on_submit
        /\ others_unchanged /\ UNCHANGED <<sheet_vars, book_vars>>
    \/ cancel_stock_entry
        /\ others_unchanged /\ UNCHANGED <<sheet_vars, recycle_vars, book_vars>>
SpecRecycle == RecycleInit /\ [][RecycleNext]_vars

BookInit ==
    others_idle /\ stock_entries = {} /\ SheetIdle /\ RecycleIdle /\ BookStart
BookNext ==
    \/ ProductionLogBook_on_submit
        /\ others_unchanged /\ UNCHANGED <<sheet_vars, recycle_vars>>
    \/ cancel_stock_entry
        /\ others_unchanged /\ UNCHANGED <<sheet_vars, recycle_vars, book_vars>>
SpecBook == BookInit /\ [][BookNext]_vars

RejectionInit == SyncIdle /\ HooksIdle /\ RejectionStart /\ StockIdle /\ EntryIdle /\ AlertIdle
RejectionNext ==
    DailyRejectionData_validate
        /\ UNCHANGED <<sync_vars, stock_entries, sheet_vars, recycle_vars, book_vars,
                       stock_vars, entry_run, alert_vars>>
SpecRejection == RejectionInit /\ [][RejectionNext]_vars

stock_others_unchanged ==
    UNCHANGED <<sync_vars, stock_entries, sheet_vars, recycle_vars, book_vars,
                rejection_vars, entry_run, alert_vars>>
StockInit == SyncIdle /\ HooksIdle /\ RejectionIdle /\ StockStart /\ EntryIdle /\ AlertIdle
StockNext == get_previous_closing_stock_call /\ stock_others_unchanged
SpecStock == StockInit /\ [][StockNext]_vars

\* The three backward searches on the same tables.
OpeningInit == SyncIdle /\ HooksIdle /\ RejectionIdle /\ OpeningStart /\ EntryIdle /\ AlertIdle
OpeningNext ==
    \/ get_previous_closing_stock_call /\ stock_others_unchanged
    \/ get_previous_hopper_opening_qty_call /\ stock_others_unchanged
    \/ get_previous_mip_opening_qty_call /\ stock_others_unchanged
SpecOpening == OpeningInit /\ [][OpeningNext]_vars

entry_others_unchanged ==
    UNCHANGED <<sync_vars, stock_entries, sheet_vars, recycle_vars, book_vars,
                rejection_vars, stock_vars, alert_vars>>
EntryInit == SyncIdle /\ HooksIdle /\ RejectionIdle /\ StockIdle /\ EntryIdle /\ AlertIdle
EntryNext ==
    \/ get_last_5_avg_rate_call /\ entry_others_unchanged
    \/ get_bom_items_only_call /\ entry_others_unchanged
    \/ calculate_scrap_in_qty_call /\ entry_others_unchanged
    \/ get_bom_main_and_scrap_items_call /\ entry_others_unchanged
    \/ get_bom_item_quantities_call /\ entry_others_unchanged
SpecEntry == EntryInit /\ [][EntryNext]_vars

alert_others_unchanged ==
    UNCHANGED <<sync_vars, stock_entries, sheet_vars, recycle_vars, book_vars,
                rejection_vars, stock_vars, entry_run>>
AlertInit == SyncIdle /\ HooksIdle /\ RejectionIdle /\ StockIdle /\ EntryIdle /\ AlertStart
AlertNext ==
    \/ check_stock_levels_and_send_alert_run /\ alert_others_unchanged
    \/ test_stock_alert_call /\ alert_others_unchanged
    \/ test_call /\ alert_others_unchanged
SpecAlert == AlertInit /\ [][AlertNext]_vars

\* ------------------------------------------------------------------------
\* Properties of the Stock Entry hooks
\* ------------------------------------------------------------------------
entry_names == { se.name : se \in stock_entries }

sheet_linked ==
    { se \in stock_entries : se.production_log_sheet = sheet.name /\ se.docstatus # 2 }

\* C6: at most one non-cancelled Stock Entry is linked to the Production Log
\* Sheet, and an on_submit that finds one returns without creating anything.
C6_AtMostOneLinkedStockEntry ==
    /\ Cardinality(sheet_linked) <= 1
    /\ (sheet_run.called /\ sheet_run.had_entry) =>
          /\ ~sheet_run.ret.raised
          /\ entry_names = sheet_run.entries_before

\* on_submit ran again while the sheet's Stock Entry was there.
C6_Witness ==
    /\ sheet_run.called
    /\ sheet_run.had_entry
    /\ Cardinality(sheet_linked) = 1

\* C7: stock_entry_no, once populated, names a Manufacture Stock Entry of the
\* sheet that was submitted; an on_submit that had to create the entry either
\* raises and leaves stock_entry_no as it was, or returns with stock_entry_no
\* naming the entry it created and submitted.
C7_StockEntryNoOnlyAfterSubmit ==
    /\ sheet.stock_entry_no # 0 =>
          \E se \in stock_entries :
              /\ se.name = sheet.stock_entry_no
              /\ se.production_log_sheet = sheet.name
              /\ se.stock_entry_type = "Manufacture"
              /\ se.docstatus \in {1, 2}
    /\ (sheet_run.called /\ ~sheet_run.had_entry) =>
          IF sheet_run.ret.raised
          THEN /\ sheet.stock_entry_no = sheet_run.no_before
               /\ entry_names = sheet_run.entries_before
          ELSE /\ sheet.stock_entry_no \in entry_names \ sheet_run.entries_before
               /\ sheet_run.fault = "none"

complete_sheet ==
    /\ sheet_validation(sheet) = ""
    /\ \A i \in 1..Len(sheet.raw_material_consumption) :
          LET row == sheet.raw_material_consumption[i]
          IN row.item_code # None /\ row.source_warehouse # None /\ row.consumption > 0
    /\ \A i \in 1..Len(sheet.production_details) :
          LET row == sheet.production_details[i]
          IN /\ row.item_code # None /\ row.target_warehouse # None
             /\ row.manufactured_qty > 0 /\ row.stock_uom # None

\* The submit of the new Stock Entry failed on a sheet whose rows are all
\* valid: on_submit raised and stock_entry_no is unset.
C7_Witness ==
    /\ sheet_run.called
    /\ complete_sheet
    /\ sheet_run.fault = "submit"
    /\ sheet_run.ret = Raised("Failed to create Manufacture Stock Entry")
    /\ sheet.stock_entry_no = 0

recycle_entries == { se \in stock_entries : se.source = recycle.name }

\* C8: at most one Stock Entry is ever created for the Recycle Machine Daily
\* Production; on_submit creates nothing when stock_entry_no is set;
\* stock_entry_no names a submitted entry of the document; a raising
\* on_submit leaves stock_entry_no unset and no entry behind.
C8_AtMostOneStockEntry ==
    /\ Cardinality(recycle_entries) <= 1
    /\ recycle.stock_entry_no # 0 =>
          \E se \in recycle_entries :
              se.name = recycle.stock_entry_no /\ se.docstatus \in {1, 2}
    /\ (recycle_run.called /\ recycle_run.no_before # 0) =>
          /\ entry_names = recycle_run.entries_before
          /\ recycle.stock_entry_no = recycle_run.no_before
    /\ (recycle_run.called /\ recycle_run.no_before = 0) =>
          IF recycle_run.ret.raised
          THEN recycle.stock_entry_no = 0 /\ recycle_entries = {}
          ELSE recycle.stock_entry_no # 0 /\ recycle_run.fault = "none"

\* on_submit ran again after it had created and recorded the Stock Entry.
C8_Witness ==
    /\ recycle_run.called
    /\ recycle_run.no_before # 0
    /\ Cardinality(recycle_entries) = 1

hopper_linked ==
    { se \in stock_entries : /\ se.stock_entry_type = "Material Receipt"
                             /\ se.custom_production_log_book = book.name
                             /\ se.docstatus \in {0, 1} }

hopper_created ==
    { se \in stock_entries : /\ se.stock_entry_type = "Material Receipt"
                             /\ se.source = book.name }

\* C9: at most one Draft-or-Submitted Material Receipt is linked to the
\* Production Log Book; an on_submit that finds one creates no Material
\* Receipt; none is ever created when closing_qty <= 0 or the hopper item is
\* not set.
C9_AtMostOneHopperStockEntry ==
    /\ Cardinality(hopper_linked) <= 1
    /\ (book_run.called /\ book_run.hopper_existed) =>
          receipts(stock_entries) = book_run.receipts_before
    /\ (book.closing_qty <= 0 \/ book.hopper_and_tray_item = None) =>
          hopper_created = {}

\* on_submit ran again while the book's Material Receipt was there.
C9_Witness ==
    /\ book_run.called
    /\ book_run.hopper_existed
    /\ ~book_run.ret.raised
    /\ Cardinality(hopper_linked) = 1

\* The Manufacture Stock Entries built from the book's Material Consumption
\* rows, and the rows that give a target item.
book_manufactured ==
    { se \in stock_entries : se.source = book.name /\ se.stock_entry_type = "Manufacture" }

rows_with_target ==
    SelectSeq(book.material_consumption, LAMBDA row : row.target_warhouse # None)

is_main(row) == row.item_type \in {"Main Item", " Main Item "}
is_scrap(row) == row.item_type = "Scrap Item"

\* C18: every item built from a Material Consumption row has exactly one of
\* s_warehouse and t_warehouse and a qty >= 0, is never both finished and
\* scrap, is finished or scrap only with a target warehouse, and the item of
\* a row's target warehouse is finished iff the row's item_type is Main
\* Item and scrap iff it is Scrap Item.
C18_StockEntryItems ==
    \A se \in book_manufactured :
        LET targets == SelectSeq(se.items, LAMBDA item : item.t_warehouse # None)
        IN /\ \A k \in 1..Len(se.items) :
                 LET item == se.items[k]
                 IN /\ (item.s_warehouse = None) # (item.t_warehouse = None)
                    /\ item.qty >= 0
                    /\ ~(item.is_finished_item = 1 /\ item.is_scrap_item = 1)
                    /\ (item.is_finished_item = 1 \/ item.is_scrap_item = 1)
                          => item.t_warehouse # None
           /\ Len(targets) = Len(rows_with_target)
           /\ \A k \in 1..Len(targets) :
                 /\ targets[k].t_warehouse = rows_with_target[k].target_warhouse
                 /\ targets[k].qty = rows_with_target[k].in_qty
                 /\ (targets[k].is_finished_item = 1) = is_main(rows_with_target[k])
                 /\ (targets[k].is_scrap_item = 1) = is_scrap(rows_with_target[k])

\* C18 witness: a row with both warehouses and item_type Main Item gave a
\* Stock Entry of two items, the raw material and the finished item.
C18_Witness ==
    \E se \in book_manufactured :
        /\ Len(se.items) = 2
        /\ se.items[1].s_warehouse # None /\ se.items[1].is_finished_item = 0
        /\ se.items[2].t_warehouse # None /\ se.items[2].is_finished_item = 1
        /\ is_main(book.material_consumption[1])

\* A scrap item of quantity 0 is appended all the same.
C18_WitnessScrap ==
    \E se \in book_manufactured :
        \E k \in 1..Len(se.items) :
            /\ se.items[k].is_scrap_item = 1 /\ se.items[k].qty = 0
            /\ se.items[k].t_warehouse # None

\* ------------------------------------------------------------------------
\* Properties of the API functions and of validate
\* ------------------------------------------------------------------------
entry_failed_in_body ==
    CASE entry_run.endpoint = "get_last_5_avg_rate" ->
            entry_run.args.item_code # None /\ entry_run.fault # "none"
      [] entry_run.endpoint = "get_bom_items_only" ->
            /\ entry_run.args.bom_name # None
            /\ (entry_run.fault # "none" \/ entry_run.args.bom_name \notin Boms)
      [] entry_run.endpoint = "calculate_scrap_in_qty" ->
            /\ entry_run.args.bom_name # None /\ entry_run.args.item_code # None
            /\ entry_run.args.manufactured_qty > 0
            /\ (entry_run.fault # "none" \/ entry_run.args.bom_name \notin Boms)
      [] entry_run.endpoint \in {"get_bom_main_and_scrap_items",
                                 "get_bom_item_quantities"} ->
            /\ entry_run.args.bom_name # None
            /\ (entry_run.fault # "none" \/ entry_run.args.bom_name \notin Boms)
      [] OTHER -> FALSE

placeholder ==
    CASE entry_run.endpoint = "get_last_5_avg_rate" -> Number(0, 1)
      [] entry_run.endpoint = "get_bom_items_only" -> List(<<>>)
      [] entry_run.endpoint = "calculate_scrap_in_qty" -> Dict(0, 1)
      [] entry_run.endpoint = "get_bom_main_and_scrap_items" -> MainAndScrap(None, <<>>)
      [] entry_run.endpoint = "get_bom_item_quantities" -> Quantities(0, <<>>)
      [] OTHER -> NoValue

prior_books ==
    LET today == stock_query.current_date.day
        shift == normalize_shift(stock_query.current_shift)
    IN { i \in 1..Len(log_books) :
            /\ log_books[i].docstatus = 1
            /\ log_books[i].item_row.present
            /\ \/ /\ log_books[i].production_date < today
                  /\ log_books[i].production_date >= today - max_days_back
               \/ /\ shift = "night"
                  /\ log_books[i].production_date = today
                  /\ log_books[i].shift_type = "Day" }

\* Most recent by production_date, Night after Day, then by creation.
more_recent(i, j) ==
    LET a == log_books[i]
        b == log_books[j]
        night(d) == IF d.shift_type = "Night" THEN 1 ELSE 0
    IN \/ a.production_date > b.production_date
       \/ a.production_date = b.production_date /\ night(a) > night(b)
       \/ a.production_date = b.production_date /\ night(a) = night(b) /\ i >= j

most_recent_prior ==
    CHOOSE i \in prior_books : \A j \in prior_books : more_recent(i, j)

\* A call with all arguments given and no database error, on a table whose
\* documents are all of the Day or Night shift and whose rows for the item
\* all hold a closing stock.
plain_lookup ==
    /\ stock_run.called
    /\ stock_query.item_code # None
    /\ stock_query.current_date.fmt = "iso"
    /\ stock_query.current_shift # None
    /\ stock_query.exclude_docname = 0
    /\ ~stock_query.fault
    /\ \A i \in 1..Len(log_books) :
          /\ log_books[i].shift_type \in {"Day", "Night"}
          /\ log_books[i].item_row.present => log_books[i].item_row.closing_stock # <<>>

\* C4: get_previous_closing_stock returns the closing stock of the most
\* recent prior submitted Production Log Book that contains the item, and 0
\* only when there is none.
C4_MostRecentPriorClosingStock ==
    plain_lookup =>
        IF prior_books = {} THEN stock_run.value = 0
        ELSE stock_run.value = log_books[most_recent_prior].item_row.closing_stock[1]

\* Two submitted books of the same date and shift, the older one holding the
\* item and the newer one not: the lookup answers 0.
C4_Witness ==
    /\ plain_lookup
    /\ Len(log_books) = 2
    /\ \A i \in 1..2 : /\ log_books[i].docstatus = 1
                       /\ log_books[i].production_date = 30
                       /\ log_books[i].shift_type = "Night"
    /\ log_books[1].item_row = ItemRow(<<11>>)
    /\ log_books[2].item_row = NoRow
    /\ stock_query.current_shift = "Day"
    /\ stock_run.value = 0

\* ---- the priority order of the lookup ----------------------------------
\* A call with all its arguments and no database error.
served_lookup ==
    /\ stock_run.called
    /\ stock_query.item_code # None
    /\ stock_query.current_date.fmt = "iso"
    /\ stock_query.current_shift # None
    /\ ~stock_query.fault

night_query == stock_query.current_shift \in {"Night", " NIGHT "}

\* The place of a (date, shift) candidate in the order the claim gives, 0
\* first; -1 for a pair that is no candidate.
priority(date, shift) ==
    LET today == stock_query.current_date.day
    IN IF shift \notin {"Day", "Night"} THEN -1
       ELSE IF date = today
       THEN (IF night_query /\ shift = "Day" THEN 0 ELSE -1)
       ELSE IF date < today /\ date >= today - max_days_back
       THEN 2 * (today - 1 - date) + (IF shift = "Night" THEN 1 ELSE 2)
       ELSE -1

\* The documents a candidate may answer with: submitted, not the excluded one.
answering(i) ==
    /\ log_books[i].docstatus = 1
    /\ log_books[i].name # stock_query.exclude_docname
    /\ priority(log_books[i].production_date, log_books[i].shift_type) >= 0

\* The document of its candidate: the last created of the answering ones.
candidate_document(i) ==
    /\ answering(i)
    /\ \A j \in 1..Len(log_books) :
          (/\ answering(j)
           /\ log_books[j].production_date = log_books[i].production_date
           /\ log_books[j].shift_type = log_books[i].shift_type) => j <= i

\* The candidates that have a closing stock for the item.
with_closing_stock ==
    { i \in 1..Len(log_books) :
        /\ candidate_document(i)
        /\ log_books[i].item_row.present
        /\ log_books[i].item_row.closing_stock # <<>> }

first_with_closing_stock ==
    CHOOSE i \in with_closing_stock :
        \A j \in with_closing_stock :
            priority(log_books[i].production_date, log_books[i].shift_type)
              <= priority(log_books[j].production_date, log_books[j].shift_type)

\* C12: the candidates are ranked same-date Day first for a Night shift, then
\* every earlier date Night before Day going backwards (Both is ranked as
\* Day); the call returns the closing stock of the first candidate whose
\* document has one, 0 when none has, and the value never comes from the
\* document named exclude_docname nor from one that is not submitted.
C12_PriorityOrder ==
    served_lookup =>
        /\ IF with_closing_stock = {} THEN stock_run.value = 0
           ELSE stock_run.value
                  = log_books[first_with_closing_stock].item_row.closing_stock[1]
        /\ \A i \in 1..Len(log_books) :
              (/\ stock_run.value # 0
               /\ log_books[i].item_row = ItemRow(<<stock_run.value>>)) =>
                  /\ log_books[i].docstatus = 1
                  /\ log_books[i].name # stock_query.exclude_docname

\* C12 witness: a Day-shift call with a Night and a later-created Day
\* document of the previous date, both holding the item: the Night one answers.
C12_Witness ==
    /\ served_lookup
    /\ stock_query.current_shift = "Day"
    /\ stock_query.exclude_docname = 0
    /\ Len(log_books) = 2
    /\ \A i \in 1..2 : log_books[i].docstatus = 1 /\ log_books[i].production_date = 30
    /\ log_books[1].shift_type = "Night" /\ log_books[1].item_row = ItemRow(<<11>>)
    /\ log_books[2].shift_type = "Day" /\ log_books[2].item_row = ItemRow(<<12>>)
    /\ stock_run.value = 11

\* A Night-shift call: the Day document of the same date answers before the
\* Night document of the day before; and a call that excludes the first
\* candidate's document is answered by the next.
C12_WitnessNight ==
    /\ served_lookup
    /\ night_query
    /\ Len(log_books) = 2
    /\ \A i \in 1..2 : log_books[i].docstatus = 1
    /\ log_books[1].production_date = 30 /\ log_books[1].shift_type = "Night"
    /\ log_books[1].item_row = ItemRow(<<11>>)
    /\ log_books[2].production_date = 31 /\ log_books[2].shift_type = "Day"
    /\ log_books[2].item_row = ItemRow(<<12>>)
    /\ stock_run.value = IF stock_query.exclude_docname = 2 THEN 11 ELSE 12

\* ---- the window of the three backward searches -------------------------
\* The value the endpoint called reads from document i, <<>> when unset.
answer_of(i) ==
    CASE stock_run.endpoint = "get_previous_closing_stock" ->
            IF log_books[i].item_row.present
            THEN log_books[i].item_row.closing_stock ELSE <<>>
      [] stock_run.endpoint = "get_previous_hopper_opening_qty" ->
            log_books[i].closing_qty
      [] stock_run.endpoint = "get_previous_mip_opening_qty" ->
            log_books[i].closing_qty_mip
      [] OTHER -> <<>>

\* Document i is dated within max_days_back days before the current date,
\* or on it.
in_window(i) ==
    /\ log_books[i].production_date >= stock_query.current_date.day - max_days_back
    /\ log_books[i].production_date <= stock_query.current_date.day

\* C13: each of the three backward searches ends after at most 61 (date,
\* shift) candidates (2 * 30 days, and the same date for a Night shift),
\* returns no value of a Production Log Book dated more than 30 days before
\* the current date or after it, and returns 0 when no submitted document
\* lies in that window.
C13_SearchWindow ==
    stock_run.called =>
        /\ stock_run.examined <= 2 * max_days_back + 1
        /\ \A i \in 1..Len(log_books) :
              (stock_run.value # 0 /\ answer_of(i) = <<stock_run.value>>) => in_window(i)
        /\ (\A i \in 1..Len(log_books) : log_books[i].docstatus = 1 => ~in_window(i))
              => stock_run.value = 0

\* C13 witness: a Night-shift hopper lookup whose only documents are dated
\* 31 days back and one day ahead runs through all 61 candidates and
\* returns 0.
C13_Witness ==
    /\ stock_run.called
    /\ stock_run.endpoint = "get_previous_hopper_opening_qty"
    /\ stock_query.current_shift = "Night" /\ ~stock_query.fault
    /\ stock_query.exclude_docname = 0
    /\ Len(log_books) = 2
    /\ \A i \in 1..2 : log_books[i].docstatus = 1 /\ log_books[i].shift_type = "Day"
    /\ log_books[1].production_date = 0 /\ log_books[1].closing_qty = <<21>>
    /\ log_books[2].production_date = 32 /\ log_books[2].closing_qty = <<22>>
    /\ stock_run.examined = 2 * max_days_back + 1
    /\ stock_run.value = 0

\* The last candidate of a Day-shift MIP lookup, 30 days back, answers.
C13_WitnessLastDay ==
    /\ stock_run.called
    /\ stock_run.endpoint = "get_previous_mip_opening_qty"
    /\ stock_query.current_shift = "Day"
    /\ Len(log_books) = 1
    /\ log_books[1].docstatus = 1 /\ log_books[1].shift_type = "Day"
    /\ log_books[1].production_date = 1
    /\ stock_run.examined = 2 * max_days_back
    /\ stock_run.value = 31

\* ---- the stock alert ---------------------------------------------------
\* The enabled items with a safety stock, and those of them whose actual_qty
\* over the three warehouses is strictly below it.
monitored_items ==
    { i \in ItemCodes : item_master[i].disabled = 0 /\ item_master[i].safety_stock > 0 }

qty_in(i, w) == IF bins[i][w] = <<>> THEN 0 ELSE bins[i][w][1]

stock_of(i) ==
    qty_in(i, "Production - HEX") + qty_in(i, "Raw Material - HEX")
    + qty_in(i, "Finished Goods - HEX")

items_below == { i \in monitored_items : stock_of(i) < item_master[i].safety_stock }

\* The run sent for exactly one email, the red one listing the items below
\* their safety stock when there are any, the green one otherwise.
one_alert ==
    /\ Len(alert_run.mails) = 1
    /\ LET mail == alert_run.mails[1]
           listed == { mail.items[k].item_code : k \in 1..Len(mail.items) }
       IN /\ listed = items_below
          /\ Len(mail.items) = Cardinality(items_below)
          /\ \A k \in 1..Len(mail.items) :
                mail.items[k].current_stock = stock_of(mail.items[k].item_code)
          /\ mail.subject = IF items_below # {} THEN red_subject ELSE green_subject

reached_send ==
    /\ monitored_items # {}
    /\ alert_run.fault \notin {"get_all", "get_value"}

C14_WitnessNoItems ==
    /\ alert_run.called /\ alert_run.fault = "none"
    /\ monitored_items = {}
    /\ alert_run.mails = <<>>

\* The check met an exception in its body: the Item query raised, or a Bin
\* query did while the items were summed.
check_hit_exception ==
    \/ alert_run.fault = "get_all"
    \/ alert_run.fault = "get_value" /\ monitored_items # {}

\* C15: when the check hits an exception the test_stock_alert endpoint
\* returns success=False with the error and the test() script raises; they
\* report success only when the check completed.
C15_TestReportsFailure ==
    (alert_run.called /\ alert_run.endpoint \in {"test_stock_alert", "test"}) =>
        /\ check_hit_exception =>
              IF alert_run.endpoint = "test_stock_alert"
              THEN ~alert_run.ret.raised /\ ~alert_run.ret.success
              ELSE alert_run.ret.raised
        /\ alert_run.ret.success => ~check_hit_exception

\* C15 failing case: the Item query raises under the endpoint; the check
\* logs the error itself and the endpoint answers success=True.
C15_Witness ==
    /\ alert_run.called
    /\ alert_run.endpoint = "test_stock_alert"
    /\ alert_run.fault = "get_all"
    /\ alert_run.logged = {"Stock Alert Check Error"}
    /\ alert_run.mails = <<>>
    /\ alert_run.ret = Returned(TRUE, "Stock alert check completed")

\* ---- a BOM that does not exist -----------------------------------------
bom_endpoints ==
    {"get_bom_items_only", "get_bom_main_and_scrap_items", "get_bom_item_quantities"}

\* C16: each of the three BOM endpoints, called with the name of a BOM that
\* does not exist, fails with the error "BOM {name} does not exist"; called
\* with an empty bom_name it returns its empty result without error.
C16_MissingBomError ==
    entry_run.endpoint \in bom_endpoints =>
        /\ (/\ entry_run.args.bom_name # None
            /\ entry_run.args.bom_name \notin Boms
            /\ entry_run.fault = "none") =>
                entry_run.ret = Raised("BOM does not exist")
        /\ entry_run.args.bom_name = None =>
              /\ ~entry_run.ret.raised
              /\ entry_run.logged = {}
              /\ entry_run.value =
                    CASE entry_run.endpoint = "get_bom_items_only" -> List(<<>>)
                      [] entry_run.endpoint = "get_bom_main_and_scrap_items" ->
                            MainAndScrap(None, <<>>)
                      [] entry_run.endpoint = "get_bom_item_quantities" ->
                            Quantities(0, <<>>)

\* C16 failing case: get_bom_item_quantities for the missing BOM-404, the
\* database answering normally: the error is the generic one, and logged.
C16_Witness ==
    /\ entry_run.endpoint = "get_bom_item_quantities"
    /\ entry_run.args.bom_name = "BOM-404"
    /\ entry_run.fault = "none"
    /\ entry_run.ret = Raised("Error fetching BOM item quantities")
    /\ entry_run.logged = {"Error fetching BOM item quantities"}

five_counts(row) ==
    or_0(row.box_rejected_by_die_punching) + or_0(row.box_rejected_by_printing)
    + or_0(row.box_rejected_by_bending) + or_0(row.box_rejected_by_stepling)
    + or_0(row.box_rejected_by_dry_problem)

RECURSIVE rejected_in(_, _)
rejected_in(rows, shifts) ==
    IF rows = <<>> THEN 0
    ELSE (IF Head(rows).shift_type \in shifts THEN five_counts(Head(rows)) ELSE 0)
         + rejected_in(Tail(rows), shifts)

\* C5: after validate every row total is the sum of the row's five counts,
\* the three totals are the sums over all, the Day and the Night rows, and
\* rejection_in_ is total_rejection / total_box_checked * 100 when
\* total_box_checked > 0 and 0 otherwise, with a non-zero divisor.
C5_TotalsAfterValidate ==
    rejection_run.called =>
        LET rows == rejection.table_zsze
            given == rejection_run.before.table_zsze
            checked == rejection.total_box_checked
            percent == rejection.rejection_in_[1]
        IN /\ Len(rows) = Len(given)
           /\ \A i \in 1..Len(rows) :
                 /\ rows[i] = [given[i] EXCEPT !.row_total_rejection = rows[i].row_total_rejection]
                 /\ rows[i].row_total_rejection = <<five_counts(given[i])>>
           /\ rejection.total_rejection = <<rejected_in(given, {"Day", "Night", "General"})>>
           /\ rejection.total_rejected_in_day_shift = <<rejected_in(given, {"Day"})>>
           /\ rejection.total_rejected_in_night_shift = <<rejected_in(given, {"Night"})>>
           /\ checked = rejection_run.before.total_box_checked
           /\ percent.den # 0
           /\ IF checked # <<>> /\ checked[1] > 0
              THEN percent.num * checked[1]
                   = rejection.total_rejection[1] * 100 * percent.den
              ELSE percent.num = 0

\* validate ran on a Day row and a Night row with empty and filled counts
\* and a positive total_box_checked.
C5_Witness ==
    /\ rejection_run.called
    /\ Len(rejection.table_zsze) = 2
    /\ rejection.table_zsze[1].shift_type = "Day"
    /\ rejection.table_zsze[2].shift_type = "Night"
    /\ rejection.table_zsze[1].box_rejected_by_dry_problem = <<1>>
    /\ rejection.table_zsze[1].box_rejected_by_printing = <<>>
    /\ rejection.table_zsze[2].row_total_rejection = <<5>>
    /\ rejection.total_box_checked = <<3>>
    /\ rejection.total_rejection[1] > 0

=============================================================================
